---- MODULE Spec2Model ----
(***************************************************************************)
(* A model of the retrieval core of the document question-answering        *)
(* backend: the section chunker (app/services/chunker.py) and the unified  *)
(* search-and-rerank pipeline (app/services/search_service.py).            *)
(*                                                                         *)
(* Strings are modelled exactly, in run-length encoding: a text is a       *)
(* sequence of runs <<c, n>> (the character c repeated n >= 1 times) in    *)
(* which neighbouring runs hold different characters.  The string          *)
(* operations of the code (len, find, split, join, replace, strip, slices) *)
(* are defined on this encoding character for character, so texts of       *)
(* thousands of characters stay small.                                     *)
(***************************************************************************)
EXTENDS Integers, Sequences, FiniteSets, TLC

----------------------------------------------------------------------------
(* Python str operations on run-length encoded texts                       *)

Min(S) == CHOOSE x \in S : \A y \in S : x <= y
Max(S) == CHOOSE x \in S : \A y \in S : x >= y

\* v has been computed: a statement's operands and a call's arguments are
\* evaluated before the statements that follow
Computed(v) == v = v

RECURSIVE Norm(_)
\* the normal form of a sequence of runs: no empty run, no two neighbours alike
Norm(t) ==
    IF t = <<>> THEN <<>>
    ELSE IF t[1][2] = 0 THEN Norm(Tail(t))
    ELSE LET r == Norm(Tail(t)) IN
         IF r # <<>> /\ r[1][1] = t[1][1]
         THEN << <<t[1][1], t[1][2] + r[1][2]>> >> \o Tail(r)
         ELSE << t[1] >> \o r

\* the text spelled by a sequence of single characters
Chars(cs) == Norm([i \in 1..Len(cs) |-> <<cs[i], 1>>])

\* c repeated n times
Rep(c, n) == Norm(<< <<c, n>> >>)

\* a + b, for a and b in normal form: only the seam can need merging
Cat(a, b) ==
    IF a = <<>> THEN b
    ELSE IF b = <<>> THEN a
    ELSE IF a[Len(a)][1] = b[1][1]
         THEN SubSeq(a, 1, Len(a) - 1) \o << <<b[1][1], a[Len(a)][2] + b[1][2]>> >>
                 \o Tail(b)
         ELSE a \o b

RECURSIVE StrLen(_)
\* len(t): the lengths of the runs, summed by halves
StrLen(t) ==
    IF t = <<>> THEN 0
    ELSE IF Len(t) = 1 THEN t[1][2]
    ELSE LET h == Len(t) \div 2 IN
         StrLen(SubSeq(t, 1, h)) + StrLen(SubSeq(t, h + 1, Len(t)))

\* the offset of the first character of run i
StartOf(t, i) == StrLen(SubSeq(t, 1, i - 1))

RECURSIVE Take(_, _)
\* t[:k], by halves
Take(t, k) ==
    IF k <= 0 \/ t = <<>> THEN <<>>
    ELSE IF Len(t) = 1 THEN << <<t[1][1], IF k < t[1][2] THEN k ELSE t[1][2]>> >>
    ELSE LET h == Len(t) \div 2
             left == SubSeq(t, 1, h)
             n == StrLen(left)
         IN  IF k <= n THEN Take(left, k)
             ELSE left \o Take(SubSeq(t, h + 1, Len(t)), k - n)

RECURSIVE Drop(_, _)
\* t[k:], by halves
Drop(t, k) ==
    IF t = <<>> THEN <<>>
    ELSE IF k <= 0 THEN t
    ELSE IF Len(t) = 1
         THEN IF k < t[1][2] THEN << <<t[1][1], t[1][2] - k>> >> ELSE <<>>
    ELSE LET h == Len(t) \div 2
             left == SubSeq(t, 1, h)
             n == StrLen(left)
         IN  IF k < n THEN Drop(left, k) \o SubSeq(t, h + 1, Len(t))
             ELSE Drop(SubSeq(t, h + 1, Len(t)), k - n)

\* t[-k:] (Python: t[-0:] is the whole string)
LastChars(t, k) == IF k <= 0 THEN t ELSE Drop(t, StrLen(t) - k)

\* an occurrence of p starts inside run i of t
MatchAt(t, p, i) ==
    LET k == Len(p) IN
    /\ i + k - 1 <= Len(t)
    /\ t[i][1] = p[1][1]
    /\ t[i][2] >= p[1][2]
    /\ k >= 2 =>
          /\ \A j \in 2..(k - 1) : t[i + j - 1] = p[j]
          /\ t[i + k - 1][1] = p[k][1]
          /\ t[i + k - 1][2] >= p[k][2]

\* t.find(p): the offset of the first occurrence of p, or -1
Find(t, p) ==
    IF p = <<>> THEN 0
    ELSE LET I == {i \in 1..Len(t) : MatchAt(t, p, i)} IN
         IF I = {} THEN -1
         ELSE LET i == Min(I) IN
              IF Len(p) = 1 THEN StartOf(t, i)
              ELSE StartOf(t, i) + t[i][2] - p[1][2]

\* p in t
Contains(t, p) == Find(t, p) # -1

RECURSIVE Split(_, _)
\* t.split(sep), sep not empty
Split(t, sep) ==
    LET p == Find(t, sep) IN
    IF p = -1 THEN << t >>
    ELSE << Take(t, p) >> \o Split(Drop(t, p + StrLen(sep)), sep)

RECURSIVE Join(_, _)
\* sep.join(parts)
Join(parts, sep) ==
    IF parts = <<>> THEN <<>>
    ELSE IF Len(parts) = 1 THEN parts[1]
    ELSE Cat(Cat(parts[1], sep), Join(Tail(parts), sep))

RECURSIVE ReplaceAll(_, _, _)
\* t.replace(old, new), old not empty
ReplaceAll(t, old, new) ==
    LET p == Find(t, old) IN
    IF p = -1 THEN t
    ELSE Cat(Cat(Take(t, p), new), ReplaceAll(Drop(t, p + StrLen(old)), old, new))

IsSpace(c) == c \in {" ", "\n", "\t"}

RECURSIVE LStrip(_)
LStrip(t) == IF t # <<>> /\ IsSpace(t[1][1]) THEN LStrip(Tail(t)) ELSE t

RECURSIVE RStrip(_)
RStrip(t) ==
    IF t # <<>> /\ IsSpace(t[Len(t)][1]) THEN RStrip(SubSeq(t, 1, Len(t) - 1)) ELSE t

\* t.strip()
Strip(t) == RStrip(LStrip(t))

RECURSIVE CountChar(_, _)
\* t.count(c) for a single character c
CountChar(t, c) ==
    IF t = <<>> THEN 0
    ELSE (IF t[1][1] = c THEN t[1][2] ELSE 0) + CountChar(Tail(t), c)

NL == Rep("\n", 1)
NLNL == Rep("\n", 2)

HasPrefix(t, p) == Take(t, StrLen(p)) = p

----------------------------------------------------------------------------
(* strip_base64_images                                                     *)

\* the characters of the regex class [A-Za-z0-9+/=\s]
IsB64Char(c) ==
    c \in {"a", "b", "c", "d", "e", "f", "g", "h", "i", "j", "k", "l", "m",
           "n", "o", "p", "q", "r", "s", "t", "u", "v", "w", "x", "y", "z",
           "A", "B", "C", "D", "E", "F", "G", "H", "I", "J", "K", "L", "M",
           "N", "O", "P", "Q", "R", "S", "T", "U", "V", "W", "X", "Y", "Z",
           "0", "1", "2", "3", "4", "5", "6", "7", "8", "9",
           "+", "/", "=", " ", "\n", "\t"}

ImgOpen == Chars(<<"!", "[">>)
ImgData == Chars(<<"d", "a", "t", "a", ":", "i", "m", "a", "g", "e", "/">>)
ImgB64 == Chars(<<";", "b", "a", "s", "e", "6", "4", ",">>)
ImageWord == Chars(<<"I", "m", "a", "g", "e">>)
ImageRemoved ==
    Cat(Cat(Rep("[", 1), ImageWord),
        Chars(<<" ", "r", "e", "m", "o", "v", "e", "d", "]">>))

\* the length of the match of  data:image/[^;]+;base64,  at the start of t, or -1
DataUriHead(t) ==
    IF ~HasPrefix(t, ImgData) THEN -1
    ELSE LET r == Drop(t, StrLen(ImgData))
             s == Find(r, Rep(";", 1))
         IN  IF s < 1 \/ ~HasPrefix(Drop(r, s), ImgB64) THEN -1
             ELSE StrLen(ImgData) + s + StrLen(ImgB64)

\* the match of  !\[([^\]]*)\]\(data:image/[^;]+;base64,[^\)]+\)  at the start
\* of t: <<length, alt text>>, or <<-1, <<>>>>
InlineImageAt(t) ==
    LET rest == Drop(t, 2)
        \* the alt text ends at offset q of rest, the data uri head is h long
        UriMatch(q, uri, h) ==
            LET v == IF h = -1 THEN -1 ELSE Find(Drop(uri, h), Rep(")", 1)) IN
            IF h = -1 \/ v < 1 THEN <<-1, <<>>>>
            ELSE <<2 + q + 2 + h + v + 1, Take(rest, q)>>
        AltMatch(q) ==
            IF q = -1 \/ ~HasPrefix(Drop(rest, q), Chars(<<"]", "(">>))
            THEN <<-1, <<>>>>
            ELSE UriMatch(q, Drop(rest, q + 2), DataUriHead(Drop(rest, q + 2)))
    IN  IF ~HasPrefix(t, ImgOpen) THEN <<-1, <<>>>>
        ELSE AltMatch(Find(rest, Rep("]", 1)))

RECURSIVE SubInlineImages(_)
\* re.sub of the markdown image pattern by [Image: alt] or [Image]
SubInlineImages(t) ==
    LET p == Find(t, ImgOpen)
        at == Drop(t, p)
        \* m is the match of the pattern at offset p
        Sub(m) ==
            IF m[1] = -1
            THEN Cat(Take(t, p + 1), SubInlineImages(Drop(t, p + 1)))
            ELSE Cat(Cat(Take(t, p),
                         IF m[2] # <<>>
                         THEN Cat(Cat(Cat(Rep("[", 1), ImageWord),
                                      Cat(Chars(<<":", " ">>), m[2])), Rep("]", 1))
                         ELSE Cat(Cat(Rep("[", 1), ImageWord), Rep("]", 1))),
                     SubInlineImages(Drop(at, m[1])))
    IN  IF p = -1 THEN t ELSE Sub(InlineImageAt(at))

RECURSIVE B64RunLen(_)
\* the length of the longest prefix of t made of [A-Za-z0-9+/=\s] characters
B64RunLen(t) ==
    IF t # <<>> /\ IsB64Char(t[1][1]) THEN t[1][2] + B64RunLen(Tail(t)) ELSE 0

RECURSIVE SubDataUris(_)
\* re.sub of  data:image/[^;]+;base64,[A-Za-z0-9+/=\s]+  by [Image removed]
SubDataUris(t) ==
    LET p == Find(t, ImgData)
        at == Drop(t, p)
        \* h is the length of the data uri head at offset p, or -1
        Sub(h) ==
            LET n == IF h = -1 THEN 0 ELSE B64RunLen(Drop(at, h)) IN
            IF n = 0
            THEN Cat(Take(t, p + 1), SubDataUris(Drop(t, p + 1)))
            ELSE Cat(Cat(Take(t, p), ImageRemoved), SubDataUris(Drop(at, h + n)))
    IN  IF p = -1 THEN t ELSE Sub(DataUriHead(at))

strip_base64_images(text) == SubDataUris(SubInlineImages(text))

----------------------------------------------------------------------------
(* _detect_repeated_headers                                                *)

\* the elements of a sequence
Range(q) == {q[i] : i \in DOMAIN q}

\* how many times x occurs in the sequence q
Occurrences(q, x) == Cardinality({i \in DOMAIN q : q[i] = x})

RECURSIVE Flatten(_)
\* the concatenation of a sequence of sequences
Flatten(qs) == IF qs = <<>> THEN <<>> ELSE qs[1] \o Flatten(Tail(qs))

IsDigit(c) == c \in {"0", "1", "2", "3", "4", "5", "6", "7", "8", "9"}

\* s.lower()
LowerChar(c) ==
    CASE c = "A" -> "a" [] c = "B" -> "b" [] c = "C" -> "c" [] c = "D" -> "d"
      [] c = "E" -> "e" [] c = "F" -> "f" [] c = "G" -> "g" [] c = "H" -> "h"
      [] c = "I" -> "i" [] c = "J" -> "j" [] c = "K" -> "k" [] c = "L" -> "l"
      [] c = "M" -> "m" [] c = "N" -> "n" [] c = "O" -> "o" [] c = "P" -> "p"
      [] c = "Q" -> "q" [] c = "R" -> "r" [] c = "S" -> "s" [] c = "T" -> "t"
      [] c = "U" -> "u" [] c = "V" -> "v" [] c = "W" -> "w" [] c = "X" -> "x"
      [] c = "Y" -> "y" [] c = "Z" -> "z" [] OTHER -> c
Lower(t) == Norm([i \in 1..Len(t) |-> <<LowerChar(t[i][1]), t[i][2]>>])

\* ^\s*\d+\s*$  on a stripped line
IsNumberLine(l) == Len(l) = 1 /\ IsDigit(l[1][1])

\* the digits at the start of t, as a count of characters
RECURSIVE DigitRunLen(_)
DigitRunLen(t) ==
    IF t # <<>> /\ IsDigit(t[1][1]) THEN t[1][2] + DigitRunLen(Tail(t)) ELSE 0

AllDigits(t) == t # <<>> /\ DigitRunLen(t) = StrLen(t)

\* ^\s*\d+\s*/\s*\d+\s*$  on a stripped line
IsPageOfLine(l) ==
    LET p == Find(l, Rep("/", 1)) IN
    /\ p >= 1
    /\ AllDigits(Strip(Take(l, p)))
    /\ AllDigits(Strip(Drop(l, p + 1)))

\* ^\s*Page\s+\d+\s*$  (IGNORECASE) on a stripped line
IsPageLine(l) ==
    LET w == Chars(<<"p", "a", "g", "e">>)
        rest == Drop(Lower(l), 4)
    IN  /\ HasPrefix(Lower(l), w)
        /\ rest # <<>> /\ IsSpace(rest[1][1])
        /\ AllDigits(LStrip(rest))

\* ^.*(ARAMCO|CHEVRON|EXXON|SHELL|BP|TOTAL|PETRONAS|ADNOC|PDO).*$  (IGNORECASE)
HasCompanyName(l) ==
    \E w \in {Chars(<<"a", "r", "a", "m", "c", "o">>),
              Chars(<<"c", "h", "e", "v", "r", "o", "n">>),
              Chars(<<"e", "x", "x", "o", "n">>),
              Chars(<<"s", "h", "e", "l", "l">>),
              Chars(<<"b", "p">>),
              Chars(<<"t", "o", "t", "a", "l">>),
              Chars(<<"p", "e", "t", "r", "o", "n", "a", "s">>),
              Chars(<<"a", "d", "n", "o", "c">>),
              Chars(<<"p", "d", "o">>)} :
        Contains(Lower(l), w)

\* one of the compiled patterns matches the stripped line.  The patterns
\* modelled are the page counters and the company names; the others
\* (copyright sign, rule characters, confidential/draft/proprietary, MANUAL,
\* department and month banners) need words the section texts never spell.
MatchesPattern(l) ==
    IsPageLine(l) \/ IsNumberLine(l) \/ IsPageOfLine(l) \/ HasCompanyName(l)

\* lines[:5]
HeaderLines(lines) == SubSeq(lines, 1, Min({5, Len(lines)}))

\* lines[-5:] if len(lines) > 5 else []
FooterLines(lines) ==
    IF Len(lines) > 5 THEN SubSeq(lines, Len(lines) - 4, Len(lines)) ELSE <<>>

\* the stripped header and footer lines of one section that are counted
CountedLines(content) ==
    LET lines == Split(content, NL)
        zone == HeaderLines(lines) \o FooterLines(lines)
        clean == [i \in 1..Len(zone) |-> Strip(zone[i])]
    IN  SelectSeq(clean, LAMBDA l : 3 < StrLen(l) /\ StrLen(l) < 150)

\* the 2-line and 3-line blocks of one section's header lines that are counted
CountedBlocks(content) ==
    LET h == HeaderLines(Split(content, NL))
        two == [i \in 1..Max({0, Len(h) - 1}) |->
                   Cat(Cat(Strip(h[i]), NL), Strip(h[i + 1]))]
        three == [i \in 1..Max({0, Len(h) - 2}) |->
                   Cat(Cat(Cat(Cat(Strip(h[i]), NL), Strip(h[i + 1])), NL),
                       Strip(h[i + 2]))]
    IN  SelectSeq(two, LAMBDA b : 10 < StrLen(b) /\ StrLen(b) < 300)
          \o SelectSeq(three, LAMBDA b : 15 < StrLen(b) /\ StrLen(b) < 400)

\* max(2, int(total_sections * 0.2))
RepeatThreshold(total_sections) == Max({2, (total_sections * 2) \div 10})

_detect_repeated_headers(sections) ==
    LET threshold == RepeatThreshold(Len(sections))
        \* the repeated lines, once every section's lines and blocks are counted
        Repeated(line_counter, block_counter) ==
            LET by_pattern == {l \in Range(line_counter) : MatchesPattern(l)}
                by_count == {l \in Range(line_counter) :
                                Occurrences(line_counter, l) >= threshold}
                blocks == {b \in Range(block_counter) :
                                Occurrences(block_counter, b) >= threshold}
                by_block == UNION {{Strip(l) : l \in Range(Split(b, NL))} :
                                      b \in blocks} \ {<<>>}
            IN  by_pattern
                  \cup (IF Len(sections) >= 2 THEN by_count \cup by_block ELSE {})
    IN  Repeated(Flatten([i \in 1..Len(sections) |->
                             CountedLines(sections[i].content)]),
                 Flatten([i \in 1..Len(sections) |->
                             CountedBlocks(sections[i].content)]))

----------------------------------------------------------------------------
(* _clean_content                                                          *)

\* re.sub(r'\n{3,}', '\n\n', t)
CollapseBlankLines(t) ==
    [i \in 1..Len(t) |-> IF t[i][1] = "\n" /\ t[i][2] >= 3 THEN <<"\n", 2>> ELSE t[i]]

_clean_content(content, repeated_lines) ==
    CASE Computed(content) ->
    LET lines == Split(content, NL)
        cleaned_lines == SelectSeq(lines, LAMBDA line :
                             /\ StrLen(Strip(line)) >= 5
                             /\ Strip(line) \notin repeated_lines)
    IN  Strip(CollapseBlankLines(Join(cleaned_lines, NL)))

----------------------------------------------------------------------------
(* remove_markdown_tables_regex, remove_tables_from_content                *)

MarkerOpen == Chars(<<"[", "T", "A", "B", "L", "E", ":">>)
TableRemoved ==
    Chars(<<"[", "T", "A", "B", "L", "E", "_", "R", "E", "M", "O", "V", "E", "D", "]">>)

\* "[TABLE:" + table_id + "]"
Marker(table_id) == Cat(Cat(MarkerOpen, table_id), Rep("]", 1))

\* re.match(r'\[TABLE:([^\]]+)\]', t): <<TRUE, id>> or <<FALSE, <<>>>>
MarkerMatch(t) ==
    IF ~HasPrefix(t, MarkerOpen) THEN <<FALSE, <<>>>>
    ELSE LET rest == Drop(t, StrLen(MarkerOpen))
             q == Find(rest, Rep("]", 1))
         IN  IF q >= 1 THEN <<TRUE, Take(rest, q)>> ELSE <<FALSE, <<>>>>

\* pipe_count >= 2 or (is_separator and in_table)
IsTableLine(line, in_table) ==
    \/ CountChar(line, "|") >= 2
    \/ /\ in_table
       /\ Contains(line, Rep("-", 3)) \/ Contains(line, Rep("=", 3))

RECURSIVE TableScan(_, _, _, _, _)
\* the loop over the lines: st = [cleaned_lines, table_lines, in_table, extracted_ids]
TableScan(lines, i, cleaned_lines, table_lines, ids) ==
    LET in_table == table_lines # <<>> IN
    IF i > Len(lines)
    THEN [cleaned_lines |-> IF in_table /\ Len(table_lines) >= 2
                            THEN Append(cleaned_lines, TableRemoved)
                            ELSE cleaned_lines,
          extracted_ids |-> ids]
    ELSE LET line == lines[i]
             m == MarkerMatch(Strip(line))
         IN  IF m[1]
             THEN TableScan(lines, i + 1, Append(cleaned_lines, line), table_lines,
                            Append(ids, m[2]))
             ELSE IF IsTableLine(line, in_table)
             THEN TableScan(lines, i + 1, cleaned_lines, Append(table_lines, line), ids)
             ELSE TableScan(lines, i + 1,
                            (IF ~in_table THEN cleaned_lines
                             ELSE IF Len(table_lines) >= 2
                                  THEN Append(cleaned_lines, TableRemoved)
                                  ELSE cleaned_lines \o table_lines) \o <<line>>,
                            <<>>, ids)

\* returns [text, extracted_ids]
remove_markdown_tables_regex(text) ==
    LET lines == Split(text, NL)
        Result(r) ==
            CASE Computed(r) ->
            [text |-> Join(r.cleaned_lines, NL), extracted_ids |-> r.extracted_ids]
    IN  Result(TableScan(lines, 1, <<>>, <<>>, <<>>))

RECURSIVE ReplaceKnownTables(_, _, _)
\* the loop over the tables: [cleaned_content, found_table_ids]
ReplaceKnownTables(cleaned_content, found_table_ids, tables) ==
    IF tables = <<>>
    THEN [cleaned_content |-> cleaned_content, found_table_ids |-> found_table_ids]
    ELSE LET table == tables[1] IN
         IF table.markdown_content # <<>>
            /\ Contains(cleaned_content, table.markdown_content)
         THEN ReplaceKnownTables(
                  ReplaceAll(cleaned_content, table.markdown_content,
                             Cat(Cat(NL, Marker(table.table_id)), NL)),
                  Append(found_table_ids, table.table_id), Tail(tables))
         ELSE ReplaceKnownTables(cleaned_content, found_table_ids, Tail(tables))

\* a table removal without the second pass over unregistered tables
remove_tables_without_regex(content, tables) ==
    LET r == ReplaceKnownTables(content, <<>>, tables) IN
    [content |-> r.cleaned_content, table_ids |-> r.found_table_ids]

\* returns [content, table_ids]
remove_tables_from_content(content, tables) ==
    CASE Computed(content) ->
    LET r == ReplaceKnownTables(content, <<>>, tables) IN
    [content |-> remove_markdown_tables_regex(r.cleaned_content).text,
     table_ids |-> r.found_table_ids]

RECURSIVE _extract_table_ids_from_markers(_)
\* set(re.findall(r'\[TABLE:([^\]]+)\]', content))
_extract_table_ids_from_markers(content) ==
    LET p == Find(content, MarkerOpen)
        rest == Drop(content, p + StrLen(MarkerOpen))
        \* the marker opened at offset p closes at offset q of rest
        Ids(q) ==
            IF q = -1 THEN {}
            ELSE IF q = 0 THEN _extract_table_ids_from_markers(Drop(content, p + 1))
            ELSE {Take(rest, q)} \cup _extract_table_ids_from_markers(Drop(rest, q + 1))
    IN  IF p = -1 THEN {} ELSE Ids(Find(rest, Rep("]", 1)))

----------------------------------------------------------------------------
(* SectionChunker                                                          *)

\* Settings.min_chunk_size, Settings.max_chunk_size and
\* Settings.chunk_overlap_percentage (in percent): the defaults
DefaultMinChunkSize == 100
DefaultMaxChunkSize == 2000
DefaultOverlapPercent == 20

\* self._min_chunk_size = 100
InternalMinChunkSize == 100

\* a split piece shorter than this is dropped
SplitNoiseSize == 50

\* SectionChunker.__init__: the chunker built from the settings
SectionChunkerInit(s) ==
    [settings |-> s,
     overlap_percentage |-> s.chunk_overlap_percentage,
     _min_chunk_size |-> InternalMinChunkSize,
     _merge_threshold |-> (s.max_chunk_size * 3) \div 10]

\* f"{document_id}_chunk_{index}"
ChunkId(document_id, index) == <<document_id, "_chunk_", index>>

None == [some |-> FALSE, text |-> <<>>]
Some(t) == [some |-> TRUE, text |-> t]

\* the first separator that is "" or occurs in the text: its index, or 0
ChosenSeparator(text, separators) ==
    LET I == {i \in 1..Len(separators) :
                 separators[i] = <<>> \/ Contains(text, separators[i])}
    IN  IF I = {} THEN 0 ELSE Min(I)

\* a flush that puts the splits together without the separator between them
FlushDocUnjoined(good_splits, current_doc, separator) ==
    IF current_doc # <<>> /\ Strip(Join(current_doc, separator)) # <<>>
    THEN Append(good_splits, Join(current_doc, <<>>))
    ELSE good_splits

\* doc_text appended to good_splits unless it is blank
FlushDoc(good_splits, current_doc, separator) ==
    IF current_doc # <<>> /\ Strip(Join(current_doc, separator)) # <<>>
    THEN Append(good_splits, Join(current_doc, separator))
    ELSE good_splits

RECURSIVE _split_text(_, _, _, _)
RECURSIVE SplitLoop(_, _, _, _, _, _, _, _)
\* the loop over the splits of _split_text
SplitLoop(splits, separator, new_separators, chunk_size, chunk_overlap, good_splits, current_doc, current_length) ==
    IF splits = <<>> THEN FlushDoc(good_splits, current_doc, separator)
    ELSE IF ~(Computed(good_splits) /\ Computed(current_doc)) THEN <<>>
    ELSE LET s == splits[1]
             s_len == StrLen(s) + StrLen(separator)
         IN  IF current_length + s_len > chunk_size
             THEN LET flushed == FlushDoc(good_splits, current_doc, separator) IN
                  IF s_len > chunk_size /\ new_separators # <<>>
                  THEN SplitLoop(Tail(splits), separator, new_separators, chunk_size,
                                 chunk_overlap,
                                 flushed \o _split_text(s, new_separators, chunk_size,
                                                        chunk_overlap),
                                 <<>>, 0)
                  ELSE SplitLoop(Tail(splits), separator, new_separators, chunk_size,
                                 chunk_overlap, flushed, <<s>>, s_len)
             ELSE SplitLoop(Tail(splits), separator, new_separators, chunk_size,
                            chunk_overlap, good_splits, Append(current_doc, s),
                            current_length + s_len)

_split_text(text, separators, chunk_size, chunk_overlap) ==
    LET i == ChosenSeparator(text, separators)
        separator == IF i = 0 THEN separators[Len(separators)] ELSE separators[i]
        new_separators == IF i = 0 \/ separators[i] = <<>> THEN <<>>
                          ELSE SubSeq(separators, i + 1, Len(separators))
        splits == IF separator # <<>> THEN Split(text, separator) ELSE <<text>>
    IN  SplitLoop(splits, separator, new_separators, chunk_size, chunk_overlap,
                  <<>>, <<>>, 0)

Separators == <<NLNL, NL, Chars(<<".", " ">>), Rep(" ", 1), <<>>>>

_recursive_split(text, chunk_size, chunk_overlap) ==
    _split_text(text, Separators, chunk_size, chunk_overlap)

\* section.page_start + int(ratio * total_pages), clamped to the section's pages
InterpolatedPage(section, pos, total_len) ==
    LET total_pages == section.page_end - section.page_start + 1
        page == section.page_start + (pos * total_pages) \div total_len
    IN  Max({section.page_start, Min({page, section.page_end})})

RECURSIVE SplitChunks(_, _, _, _, _, _, _, _, _)
\* the loop of _split_large_section over text_chunks, from piece i on
SplitChunks(self, document_id, section, content, images, tables, category_id, text_chunks, st) ==
    IF st.i > Len(text_chunks) THEN st.chunks
    ELSE LET chunk_text == text_chunks[st.i] IN
         IF StrLen(Strip(chunk_text)) < SplitNoiseSize
         THEN SplitChunks(self, document_id, section, content, images, tables,
                          category_id, text_chunks, [st EXCEPT !.i = @ + 1])
         ELSE LET total_len == IF StrLen(content) = 0 THEN 1 ELSE StrLen(content)
                  found == Find(content, chunk_text)
                  start_pos == IF found = -1 THEN 0 ELSE found
                  end_pos == start_pos + StrLen(chunk_text)
                  chunk_page_start == InterpolatedPage(section, start_pos, total_len)
                  chunk_page_end == InterpolatedPage(section, end_pos, total_len)
                  chunk_images == {img \in Range(images) :
                                      /\ chunk_page_start <= img.page_number
                                      /\ img.page_number <= chunk_page_end}
                  marker_ids == _extract_table_ids_from_markers(chunk_text)
                  chunk_table_ids ==
                      IF marker_ids # {} THEN marker_ids
                      ELSE {tbl.table_id : tbl \in
                               {t \in Range(tables) :
                                   /\ chunk_page_start <= t.page_number
                                   /\ t.page_number <= chunk_page_end}}
                  chunk == [chunk_id |-> ChunkId(document_id, st.chunk_idx),
                            document_id |-> document_id,
                            category_id |-> category_id,
                            section_title |-> section.title,
                            content |-> chunk_text,
                            page_start |-> chunk_page_start,
                            page_end |-> chunk_page_end,
                            chunk_index |-> st.chunk_idx,
                            image_ids |-> {img.image_id : img \in chunk_images},
                            table_ids |-> chunk_table_ids,
                            overlap_start |-> None,
                            overlap_end |-> None,
                            is_split |-> TRUE,
                            merged |-> FALSE]
              IN  SplitChunks(self, document_id, section, content, images, tables,
                              category_id, text_chunks,
                              [i |-> st.i + 1, chunk_idx |-> st.chunk_idx + 1,
                               chunks |-> Append(st.chunks, chunk)])

_split_large_section(self, document_id, section, content, images, tables, all_table_ids, start_index, category_id) ==
    LET chunk_size == self.settings.max_chunk_size
        chunk_overlap == (chunk_size * self.overlap_percentage) \div 100
        text_chunks == _recursive_split(content, chunk_size, chunk_overlap)
    IN  SplitChunks(self, document_id, section, content, images, tables,
                    category_id, text_chunks,
                    [i |-> 1, chunk_idx |-> start_index, chunks |-> <<>>])

\* the cleaned content of a section: image-strip, boilerplate-strip, table-strip
CleanedContent(section, section_tables, repeated_headers) ==
    LET stripped == strip_base64_images(section.content)
        cleaned == _clean_content(stripped, repeated_headers)
    IN  remove_tables_from_content(cleaned, section_tables).content

_chunk_section(self, document_id, section, images, tables, start_index, category_id, repeated_headers) ==
    LET section_tables == SelectSeq(tables, LAMBDA tbl :
                              /\ section.page_start <= tbl.page_number
                              /\ tbl.page_number <= section.page_end)
        section_images == SelectSeq(images, LAMBDA img :
                              /\ section.page_start <= img.page_number
                              /\ img.page_number <= section.page_end)
        \* the chunks of the section, its content being cleaned
        Chunks(content) ==
            CASE Computed(content) ->
            LET all_table_ids == _extract_table_ids_from_markers(content)
                                    \cup {tbl.table_id : tbl \in Range(section_tables)}
            IN  IF StrLen(Strip(content)) < self._min_chunk_size THEN <<>>
                ELSE IF StrLen(content) <= self.settings.max_chunk_size
                THEN << [chunk_id |-> ChunkId(document_id, start_index),
                         document_id |-> document_id,
                         category_id |-> category_id,
                         section_title |-> section.title,
                         content |-> content,
                         page_start |-> section.page_start,
                         page_end |-> section.page_end,
                         chunk_index |-> start_index,
                         image_ids |-> {img.image_id : img \in Range(section_images)},
                         table_ids |-> all_table_ids,
                         overlap_start |-> None,
                         overlap_end |-> None,
                         is_split |-> FALSE,
                         merged |-> FALSE] >>
                ELSE _split_large_section(self, document_id, section, content,
                                          section_images, section_tables,
                                          all_table_ids, start_index, category_id)
    IN  Chunks(CleanedContent(section, section_tables, repeated_headers))

\* _combine_chunks
_combine_chunks(chunk1, chunk2) ==
    [chunk_id |-> chunk1.chunk_id,
     document_id |-> chunk1.document_id,
     category_id |-> chunk1.category_id,
     section_title |-> IF chunk1.section_title # "" THEN chunk1.section_title
                       ELSE chunk2.section_title,
     content |-> Cat(Cat(chunk1.content, NLNL), chunk2.content),
     page_start |-> Min({chunk1.page_start, chunk2.page_start}),
     page_end |-> Max({chunk1.page_end, chunk2.page_end}),
     chunk_index |-> chunk1.chunk_index,
     image_ids |-> chunk1.image_ids \cup chunk2.image_ids,
     table_ids |-> chunk1.table_ids \cup chunk2.table_ids,
     overlap_start |-> None,
     overlap_end |-> None,
     is_split |-> chunk1.is_split,
     merged |-> TRUE]

\* combined_size <= self.settings.max_chunk_size * 1.2
FitsMerged(self, a, b) ==
    (StrLen(a.content) + StrLen(b.content)) * 10 <= self.settings.max_chunk_size * 12

RECURSIVE MergeLoop(_, _, _, _)
\* the while loop of _merge_small_chunks
MergeLoop(self, chunks, i, merged) ==
    IF i > Len(chunks) THEN merged
    ELSE LET current == chunks[i] IN
         IF Computed(merged) /\ StrLen(current.content) >= self._merge_threshold
         THEN MergeLoop(self, chunks, i + 1, Append(merged, current))
         ELSE IF i + 1 <= Len(chunks) /\ FitsMerged(self, current, chunks[i + 1])
         THEN MergeLoop(self, chunks, i + 2,
                        Append(merged, _combine_chunks(current, chunks[i + 1])))
         ELSE IF merged # <<>> /\ FitsMerged(self, merged[Len(merged)], current)
         THEN MergeLoop(self, chunks, i + 1,
                        [merged EXCEPT ![Len(merged)] = _combine_chunks(@, current)])
         ELSE IF StrLen(current.content) >= self._min_chunk_size
         THEN MergeLoop(self, chunks, i + 1, Append(merged, current))
         ELSE MergeLoop(self, chunks, i + 1, merged)

\* a chunker without the merge pass
MergeSkipped(self, chunks) == chunks

_merge_small_chunks(self, chunks) == MergeLoop(self, chunks, 1, <<>>)

\* the tail of content of at most overlap_chars characters, image-stripped
OverlapText(content, overlap_chars) ==
    Strip(strip_base64_images(
        IF StrLen(content) > overlap_chars THEN LastChars(content, overlap_chars)
        ELSE content))

_apply_overlap(self, chunks) ==
    CASE Computed(chunks) ->
    IF Len(chunks) < 2 THEN chunks
    ELSE [i \in 1..Len(chunks) |->
            LET chunk == chunks[i]
                overlap_chars == (StrLen(chunk.content) * self.overlap_percentage) \div 100
            IN  [chunk EXCEPT
                   !.overlap_start =
                       IF i > 1 THEN Some(OverlapText(chunks[i - 1].content, overlap_chars))
                       ELSE @,
                   !.overlap_end =
                       IF i < Len(chunks) THEN Some(OverlapText(chunk.content, overlap_chars))
                       ELSE @]]

\* [c for c in chunks if len(c.content.strip()) >= self._min_chunk_size]
FilterTiny(self, chunks) ==
    SelectSeq(chunks, LAMBDA c : StrLen(Strip(c.content)) >= self._min_chunk_size)

\* a chunker that returns the filtered chunks without renumbering them
ReindexSkipped(document_id, chunks) == chunks

\* the reindex loop: chunk_index = idx, chunk_id = f"{document_id}_chunk_{idx}"
Reindex(document_id, chunks) ==
    [i \in 1..Len(chunks) |->
        [chunks[i] EXCEPT !.chunk_index = i - 1,
                          !.chunk_id = ChunkId(document_id, i - 1)]]

RECURSIVE SectionLoop(_, _, _, _, _, _, _, _, _)
\* the loop of chunk_sections over the sections: the list of every section's
\* chunks (section_chunks of each iteration); chunk_index counts them
SectionLoop(self, document_id, sections, images, tables, category_id, repeated_headers, chunk_index, done) ==
    CASE Computed(repeated_headers) /\ Computed(done) ->
    IF sections = <<>> THEN done
    ELSE LET \* the iterations after the one that produced section_chunks
             Rest(section_chunks) ==
                 CASE Computed(section_chunks) ->
                     SectionLoop(self, document_id, Tail(sections), images, tables,
                                 category_id, repeated_headers,
                                 chunk_index + Len(section_chunks),
                                 Append(done, section_chunks))
         IN  Rest(_chunk_section(self, document_id, sections[1], images, tables,
                                 chunk_index, category_id, repeated_headers))

\* section_chunks of every section, in order
SectionChunks(self, doc) ==
    LET repeated_headers == _detect_repeated_headers(doc.sections) IN
    SectionLoop(self, doc.document_id, doc.sections, doc.images, doc.tables,
                doc.category_id, repeated_headers, 0, <<>>)

\* the passes over all_chunks: merge, overlap, filter, re-index
ChunkPasses(self, document_id, all_chunks) ==
    LET merged == _merge_small_chunks(self, all_chunks)
        overlapped == _apply_overlap(self, merged)
        kept == FilterTiny(self, overlapped)
    IN  CASE Computed(kept) -> Reindex(document_id, kept)

chunk_sections(self, doc) ==
    LET all_chunks == Flatten(SectionChunks(self, doc)) IN
    ChunkPasses(self, doc.document_id, all_chunks)

----------------------------------------------------------------------------
(* The documents handed to the chunker                                     *)

\* the lines joined by "\n"
Lines(ls) == Join(ls, NL)

Section(title, content, page_start, page_end) ==
    [title |-> title, level |-> 1, content |-> content,
     page_start |-> page_start, page_end |-> page_end]

\* the markdown of the registered table x
TableMarkdownX ==
    Lines(<<Chars(<<"|", "u", "|", "v", "|">>), Chars(<<"|", "-", "|", "-", "|">>),
            Chars(<<"|", "w", "|", "z", "|">>)>>)

\* a table-like line
PipeLine == Chars(<<"p", "|", "q", "|", "r">>)

\* the section texts the documents are made of
SectionPool ==
    << Section("s1", Rep("a", 150), 1, 1),
       Section("s2", Rep("b", 40), 1, 1),
       Section("s4", Lines(<<Rep("d", 900), Rep("e", 900), Rep("f", 900)>>), 1, 3),
       Section("s5", Rep("g", 2500), 1, 2),
       Section("s6", Rep("h", 1900), 2, 2),
       Section("s7", Lines(<<Rep("k", 120), PipeLine, Rep("k", 60)>>), 1, 1),
       Section("s8", Lines(<<Rep("m", 130), TableMarkdownX, Rep("n", 40),
                             PipeLine, Chars(<<"-", "-", "-", "-", "-">>),
                             Rep("n", 30)>>), 1, 2),
       Section("s9", Lines(<<Rep("a", 1900), TableMarkdownX, Rep("b", 1800)>>), 1, 2),
       Section("s10", Lines(<<Rep("a", 300), TableMarkdownX, Rep("b", 1500),
                              Rep("c", 1800)>>), 1, 2),
       Section("s11", Cat(Cat(Cat(Rep("r", 1200), Chars(<<".", " ">>)),
                              Cat(Rep("s", 1200), Rep(" ", 1))), Rep("t", 300)), 2, 3) >>

Table(table_id, page_number, markdown_content) ==
    [table_id |-> table_id, page_number |-> page_number,
     markdown_content |-> markdown_content]

Image(image_id, page_number) == [image_id |-> image_id, page_number |-> page_number]

\* table x with its markdown in the text; table y was extracted as a picture of
\* a table and its markdown is not in the text
TableChoices ==
    { <<>>,
      << Table(Rep("x", 1), 2, TableMarkdownX) >>,
      << Table(Rep("x", 1), 1, TableMarkdownX),
         Table(Rep("y", 1), 1, Lines(<<PipeLine, PipeLine>>)) >> }

ImageChoices == { << Image("i1", 1), Image("i2", 2) >> }

\* a document has at most this many sections
MaxSections == 2

RECURSIVE SeqsUpTo(_, _)
\* the sequences over S of length at most n
SeqsUpTo(S, n) ==
    IF n = 0 THEN {<<>>}
    ELSE LET shorter == SeqsUpTo(S, n - 1) IN
         shorter \cup {Append(q, x) : q \in shorter, x \in S}

Documents ==
    [document_id : {"d1"}, category_id : {"c1"},
     sections : {[i \in 1..Len(q) |-> SectionPool[q[i]]] :
                    q \in SeqsUpTo(1..Len(SectionPool), MaxSections)},
     tables : TableChoices, images : ImageChoices]

\* a marker line that is in the text before the tables are removed
MarkerZ == Marker(Rep("z", 1))

\* the sections with markers already in the text, with the markdown of table x,
\* with both, with neither, and with table-like lines at the end of the text
\* and around a marker
MarkerSectionPool ==
    << Section("s1", Lines(<<Rep("a", 120), MarkerZ, Rep("b", 60)>>), 1, 1),
       Section("s2", Lines(<<Rep("c", 120), TableMarkdownX, Rep("d", 60)>>), 1, 1),
       Section("s3", Lines(<<Rep("e", 120), Marker(Rep("w", 1)), TableMarkdownX,
                             Rep("f", 60), TableMarkdownX>>), 1, 1),
       Section("s4", Rep("g", 150), 1, 1),
       Section("s5", Lines(<<Rep("k", 120), Cat(Rep(" ", 2), Marker(Rep("v", 1))),
                             PipeLine, PipeLine>>), 1, 1),
       Section("s6", Lines(<<Rep("m", 120), PipeLine>>), 1, 1),
       Section("s7", Lines(<<Rep("n", 120), PipeLine, Marker(Rep("u", 1)), PipeLine,
                             Rep("o", 60)>>), 1, 1) >>

MarkerDocuments ==
    [document_id : {"d1"}, category_id : {"c1"},
     sections : {[i \in 1..Len(q) |-> MarkerSectionPool[q[i]]] :
                    q \in SeqsUpTo(1..Len(MarkerSectionPool), MaxSections)},
     tables : TableChoices, images : ImageChoices]

\* the lengths of the sections of a document whose chunks are merged
MergeSizes == {300, 500, 1000, 1900}

\* the documents of two or three one-line sections of these lengths
MergeDocuments ==
    [document_id : {"d1"}, category_id : {"c1"},
     sections : {<<Section("s1", Rep("a", n1), 1, 1), Section("s2", Rep("b", n2), 2, 2)>> :
                    n1 \in MergeSizes, n2 \in MergeSizes}
                \cup {<<Section("s1", Rep("a", n1), 1, 1), Section("s2", Rep("b", n2), 2, 2),
                        Section("s3", Rep("c", n3), 3, 3)>> :
                    n1 \in MergeSizes, n2 \in MergeSizes, n3 \in MergeSizes},
     tables : {<<>>}, images : ImageChoices]

\* the sections that are split: words around a tab, two long lines, sentences,
\* a text without separators, four words, two words with two spaces between
\* them, and a short section that is not split
SplitSectionPool ==
    << Section("s1", Cat(Cat(Rep("a", 1999), Chars(<<" ", "\t", " ">>)), Rep("b", 1999)), 1, 1),
       Section("s2", Lines(<<Rep("c", 1500), Rep("d", 1500)>>), 1, 1),
       Section("s3", Cat(Cat(Cat(Rep("r", 1200), Chars(<<".", " ">>)),
                             Cat(Rep("s", 1200), Rep(" ", 1))), Rep("t", 300)), 1, 1),
       Section("s4", Rep("g", 2500), 1, 1),
       Section("s5", Cat(Cat(Cat(Rep("e", 900), Rep(" ", 1)), Cat(Rep("f", 900), Rep(" ", 1))),
                         Cat(Cat(Rep("h", 900), Rep(" ", 1)), Rep("k", 900))), 1, 1),
       Section("s6", Cat(Cat(Rep("m", 1999), Rep(" ", 2)), Rep("n", 1999)), 1, 1),
       Section("s7", Rep("o", 150), 1, 1) >>

SplitDocuments ==
    [document_id : {"d1"}, category_id : {"c1"},
     sections : {[i \in 1..Len(q) |-> SplitSectionPool[q[i]]] :
                    q \in SeqsUpTo(1..Len(SplitSectionPool), MaxSections)},
     tables : {<<>>}, images : ImageChoices]

\* the lengths of the first and the last section of a three-section document
OuterSizes == {100, 150, 599, 600, 1000, 2000}

\* the lengths of its middle section
MiddleSizes == {0, 40, 99}

\* the documents of three sections whose middle section is too short to chunk
ThreeSectionDocuments ==
    [document_id : {"d1"}, category_id : {"c1"},
     sections : {<<Section("s1", Rep("a", n1), 1, 1), Section("s2", Rep("b", n2), 2, 2),
                   Section("s3", Rep("c", n3), 3, 3)>> :
                    n1 \in OuterSizes, n2 \in MiddleSizes, n3 \in OuterSizes},
     tables : {<<>>}, images : ImageChoices]

\* a line of n letters followed by pad spaces
PaddedLine(n, pad) == Cat(Rep("h", n), Rep(" ", pad))

\* the lengths of the unbroken lines around the padded line, 0 for no line
LongLineSizes == {0, 1900, 2400}

\* the letters and the trailing spaces of the padded line
ShortLineSizes == {60, 150}

PadSizes == {0, 50}

\* the documents whose first section has a line with trailing spaces between
\* two unbroken lines
PaddedDocuments ==
    [document_id : {"d1"}, category_id : {"c1"},
     sections : UNION {
        LET section == Section("s1",
                               Lines(SelectSeq(<<Rep("g", a), PaddedLine(n, pad), Rep("k", b)>>,
                                               LAMBDA l : l # <<>>)),
                               1, 1)
        IN  {<<section>>, <<section, SectionPool[1]>>} :
        a \in LongLineSizes, n \in ShortLineSizes, pad \in PadSizes, b \in LongLineSizes},
     tables : {<<>>}, images : ImageChoices]

\* the lines of the sections whose headers are counted: a short line h alone,
\* twice in one section, a section of six lines, and a page counter
HeaderSectionPool ==
    << Section("s1", Lines(<<Rep("h", 8), Rep("a", 120)>>), 1, 1),
       Section("s2", Rep("b", 120), 1, 1),
       Section("s3", Lines(<<Rep("h", 8), Rep("a", 120), Rep("h", 8)>>), 1, 1),
       Section("s4", Lines(<<Rep("a", 120), Rep("k", 9), Rep("c", 9), Rep("d", 9),
                             Rep("e", 9), Rep("f", 9)>>), 2, 2),
       Section("s5", Lines(<<Chars(<<"P", "a", "g", "e", " ", "7">>), Rep("b", 120)>>), 2, 2) >>

\* a document of eleven sections, two of them with the line h
ElevenSections ==
    [i \in 1..11 |-> IF i <= 2 THEN HeaderSectionPool[1]
                      ELSE Section("s2", Rep("b", 110 + i), 1, 1)]

\* the documents whose header and footer lines are counted
HeaderDocuments ==
    [document_id : {"d1"}, category_id : {"c1"},
     sections : {[i \in 1..Len(q) |-> HeaderSectionPool[q[i]]] :
                    q \in SeqsUpTo(1..Len(HeaderSectionPool), MaxSections)}
                \cup {ElevenSections},
     tables : {<<>>}, images : ImageChoices]

\* MIN_CHUNK_SIZE, MAX_CHUNK_SIZE, CHUNK_OVERLAP_PERCENTAGE of the environment
ChunkSettings ==
    [min_chunk_size : {DefaultMinChunkSize, 2 * DefaultMinChunkSize},
     max_chunk_size : {DefaultMaxChunkSize},
     chunk_overlap_percentage : {DefaultOverlapPercent}]

----------------------------------------------------------------------------
(* UnifiedSearchService, RerankService and the sources of a chat answer.   *)
(* Scores are fixed-point numbers: a point's score and a weight are counted *)
(* in tenths, a weighted score, a reranker score and the similarity         *)
(* threshold in hundredths.                                                 *)

\* Python's seq[:n]
Slice(seq, n) ==
    IF n >= 0 THEN SubSeq(seq, 1, Min({n, Len(seq)}))
    ELSE SubSeq(seq, 1, Max({0, Len(seq) + n}))

\* dataclass SearchResult; similarity_score defaults to 0.0
SearchResult(point, source_type) ==
    [content |-> point.content, score |-> point.score,
     source_type |-> source_type, document_id |-> point.document_id,
     page_number |-> point.page_number, similarity_score |-> 0]

\* qdrant_client.query_points(..., limit=limit): the best points, best first
QueryPoints(points, limit) == Slice(points, limit)

\* a text search that returns the points of a query that raised
SearchTextUnguarded(index, top_k, failing) ==
    LET points == QueryPoints(index.text, top_k) IN
    [i \in 1..Len(points) |-> SearchResult(points[i], "text")]

\* the searches whose embedding or query raises return no result
_search_text(index, top_k, failing) ==
    IF "text" \in failing THEN <<>>
    ELSE LET points == QueryPoints(index.text, top_k) IN
         [i \in 1..Len(points) |-> SearchResult(points[i], "text")]

_search_tables(index, top_k, failing) ==
    IF "table" \in failing THEN <<>>
    ELSE LET points == QueryPoints(index.table, top_k) IN
         [i \in 1..Len(points) |-> SearchResult(points[i], "table")]

_search_images(index, top_k, failing) ==
    IF "image" \in failing THEN <<>>
    ELSE LET points == QueryPoints(index.image, top_k) IN
         [i \in 1..Len(points) |-> SearchResult(points[i], "image")]

\* for result in results: result.score *= (1 - alpha)
WeightedAgainst(results, alpha) ==
    [i \in 1..Len(results) |-> [results[i] EXCEPT !.score = @ * (10 - alpha)]]

\* for result in results: result.score *= alpha
Weighted(results, alpha) ==
    [i \in 1..Len(results) |-> [results[i] EXCEPT !.score = @ * alpha]]

RECURSIVE InsertByScore(_, _)
\* r goes behind every result whose score is at least its own
InsertByScore(sorted, r) ==
    IF sorted = <<>> THEN <<r>>
    ELSE IF Head(sorted).score >= r.score
         THEN <<Head(sorted)>> \o InsertByScore(Tail(sorted), r)
         ELSE <<r>> \o sorted

RECURSIVE SortByScore(_)
\* results.sort(key=lambda x: x.score, reverse=True): stable, best first
SortByScore(results) ==
    IF results = <<>> THEN <<>>
    ELSE InsertByScore(SortByScore(SubSeq(results, 1, Len(results) - 1)),
                       results[Len(results)])

\* sum([search_text, search_tables, search_images])
ActiveSearches(call) ==
    (IF call.search_text THEN 1 ELSE 0) + (IF call.search_tables THEN 1 ELSE 0)
        + (IF call.search_images THEN 1 ELSE 0)

MinPerCollection == 3

PerCollectionK(call) ==
    Max({MinPerCollection, call.top_k \div ActiveSearches(call)})

\* step 1 and the sort: the weighted results of the collections searched
AllResults(index, call) ==
    LET k == PerCollectionK(call)
        text_results ==
            IF call.search_text
            THEN Weighted(_search_text(index, k, call.failing), call.alpha_text)
            ELSE <<>>
        table_results ==
            IF call.search_tables
            THEN Weighted(_search_tables(index, k, call.failing), call.alpha_tables)
            ELSE <<>>
        image_results ==
            IF call.search_images
            THEN Weighted(_search_images(index, k, call.failing), call.alpha_images)
            ELSE <<>>
    IN SortByScore(text_results \o table_results \o image_results)

\* [res for res in candidates if res.score >= threshold]
AtLeast(results, threshold) ==
    SelectSeq(results, LAMBDA res : res.score >= threshold)

\* step 2: the best top_k, less those below a positive threshold
Thresholded(settings, all_results, top_k) ==
    IF settings.similarity_threshold > 0
    THEN AtLeast(Slice(all_results, top_k), settings.similarity_threshold)
    ELSE Slice(all_results, top_k)

FallbackSize == 3

\* step 3 is taken: the threshold left nothing of a pool that has results
FallbackTaken(settings, all_results, top_k) ==
    Thresholded(settings, all_results, top_k) = <<>> /\ all_results # <<>>

\* steps 2 and 3: the candidates handed to the reranker
Candidates(settings, all_results, top_k) ==
    IF FallbackTaken(settings, all_results, top_k)
    THEN Slice(all_results, Min({FallbackSize, Len(all_results)}))
    ELSE Thresholded(settings, all_results, top_k)

\* RerankService.__init__
RerankServiceInit == [model |-> "None", _initialized |-> FALSE]

\* RerankService.initialize; load_ok: CrossEncoder(...) does not raise
initialize(self, use_reranker, load_ok) ==
    IF self._initialized THEN self
    ELSE IF ~use_reranker THEN self
    ELSE IF load_ok THEN [model |-> "CrossEncoder", _initialized |-> TRUE]
    ELSE [self EXCEPT !.model = "None"]

NeutralScore == 100
FailedScore == 0

\* RerankService.rerank; cross_encoder[doc]: the sigmoid of the model's logit
\* for (query, doc); predict_ok: model.predict does not raise
rerank(self, cross_encoder, documents, predict_ok) ==
    IF ~self._initialized \/ self.model = "None"
    THEN [i \in 1..Len(documents) |-> NeutralScore]
    ELSE IF documents = <<>> THEN <<>>
    ELSE IF predict_ok
         THEN [i \in 1..Len(documents) |-> cross_encoder[documents[i]]]
         ELSE [i \in 1..Len(documents) |-> FailedScore]

\* step 4: candidates[i].similarity_score = candidates[i].score;
\* candidates[i].score = score; then the sort
Reranked(candidates, rerank_scores) ==
    SortByScore([i \in 1..Len(candidates) |->
        IF i <= Len(rerank_scores)
        THEN [candidates[i] EXCEPT !.similarity_score = candidates[i].score,
                                   !.score = rerank_scores[i]]
        ELSE candidates[i]])

\* step 5 left out: every candidate is returned
FinalSliceSkipped(settings, candidates) == candidates

\* step 5: candidates[:final_top_k]
FinalSlice(settings, candidates) == Slice(candidates, settings.rerank_top_k)

\* the threshold applied to the reranker's scores instead
search_threshold_after_rerank(settings, index, cross_encoder, rerank_service, call) ==
    IF ActiveSearches(call) = 0
    THEN [results |-> <<>>, rerank_service |-> rerank_service]
    ELSE
    LET all_results == AllResults(index, call)
        candidates == Slice(all_results, call.top_k)
        service == initialize(rerank_service, settings.use_reranker, call.load_ok)
        doc_texts == [i \in 1..Len(candidates) |-> candidates[i].content]
        rerank_scores == rerank(service, cross_encoder, doc_texts, call.predict_ok)
        ranked == IF settings.use_reranker /\ candidates # <<>>
                  THEN Reranked(candidates, rerank_scores) ELSE candidates
        kept == IF settings.similarity_threshold > 0
                THEN AtLeast(ranked, settings.similarity_threshold) ELSE ranked
    IN [results |-> FinalSlice(settings, kept),
        rerank_service |-> IF settings.use_reranker /\ candidates # <<>>
                           THEN service ELSE rerank_service]

\* UnifiedSearchService.search: the results returned and the reranker service
\* as the call leaves it
search(settings, index, cross_encoder, rerank_service, call) ==
    IF ActiveSearches(call) = 0
    THEN [results |-> <<>>, rerank_service |-> rerank_service]
    ELSE
    LET all_results == AllResults(index, call)
        candidates == Candidates(settings, all_results, call.top_k)
        service == initialize(rerank_service, settings.use_reranker, call.load_ok)
        doc_texts == [i \in 1..Len(candidates) |-> candidates[i].content]
        rerank_scores == rerank(service, cross_encoder, doc_texts, call.predict_ok)
    IN IF all_results = <<>>
       THEN [results |-> <<>>, rerank_service |-> rerank_service]
       ELSE IF settings.use_reranker /\ candidates # <<>>
            THEN [results |-> FinalSlice(settings, Reranked(candidates, rerank_scores)),
                  rerank_service |-> service]
            ELSE [results |-> FinalSlice(settings, candidates),
                  rerank_service |-> rerank_service]

\* original_score = getattr(result, 'similarity_score', 0) or result.score
OriginalScore(result) ==
    IF result.similarity_score # 0 THEN result.similarity_score ELSE result.score

RECURSIVE BuildSourcesLoop(_, _)
\* the loop over search_results of _build_sources
BuildSourcesLoop(search_results, sources_map) ==
    IF search_results = <<>> THEN sources_map
    ELSE LET result == Head(search_results)
             doc_id == result.document_id
             entry == IF doc_id \in DOMAIN sources_map THEN sources_map[doc_id]
                      ELSE [pages |-> {}, max_score |-> 0, source_types |-> {}]
             updated ==
                 [pages |-> entry.pages \cup {result.page_number},
                  max_score |-> Max({entry.max_score, OriginalScore(result)}),
                  source_types |-> entry.source_types \cup {result.source_type}]
         IN BuildSourcesLoop(Tail(search_results),
                [d \in DOMAIN sources_map \cup {doc_id} |->
                    IF d = doc_id THEN updated ELSE sources_map[d]])

NoSources == [d \in {} |-> [pages |-> {}, score |-> 0, contains |-> {}]]

\* ChatController._build_sources: per document its pages, score and types
_build_sources(search_results) ==
    LET sources_map == BuildSourcesLoop(search_results, NoSources) IN
    [d \in DOMAIN sources_map |->
        [pages |-> sources_map[d].pages, score |-> sources_map[d].max_score,
         contains |-> sources_map[d].source_types]]

----------------------------------------------------------------------------
(* The indexed collections, the settings and the calls explored            *)

Point(content, score, document_id, page_number) ==
    [content |-> content, score |-> score, document_id |-> document_id,
     page_number |-> page_number]

\* what the three collections hold for the query, best first; the text and
\* table collections are fused by reciprocal rank (scores above zero), the
\* image collection is ranked by cosine similarity (scores of either sign)
IndexChoices ==
    { [text  |-> <<Point("t1", 9, "d1", 1), Point("t2", 8, "d2", 1),
                   Point("t3", 6, "d1", 2), Point("t4", 5, "d2", 3)>>,
       table |-> <<Point("b1", 7, "d1", 2), Point("b2", 4, "d3", 1)>>,
       image |-> <<Point("i1", 6, "d3", 1), Point("i2", -2, "d4", 1)>>],
      [text  |-> <<Point("t1", 3, "d1", 1)>>,
       table |-> <<>>,
       image |-> <<Point("i1", 0, "d2", 4)>>],
      [text |-> <<>>, table |-> <<>>, image |-> <<>>],
      [text  |-> <<Point("t1", 4, "d1", 1), Point("t2", 4, "d1", 2)>>,
       table |-> <<Point("b1", 4, "d1", 1)>>,
       image |-> <<Point("i1", -3, "d2", 1)>>] }

\* the cross-encoder's normalised score of each content for the query
CrossEncoderChoices ==
    { [c \in {"t1", "t2", "t3", "t4", "b1", "b2", "i1", "i2"} |->
          CASE c = "t1" -> 20 [] c = "t2" -> 90 [] c = "t3" -> 50
            [] c = "t4" -> 70 [] c = "b1" -> 80 [] c = "b2" -> 10
            [] c = "i1" -> 60 [] OTHER -> 30] }

DefaultSimilarityThreshold == 0
DefaultRerankTopK == 10

\* SIMILARITY_THRESHOLD, RERANK_TOP_K, USE_RERANKER of the environment
SearchSettings ==
    [similarity_threshold : {DefaultSimilarityThreshold, 25, 1000},
     rerank_top_k : {2, DefaultRerankTopK},
     use_reranker : BOOLEAN]

MaxTopK == 4

DefaultAlphaText == 5
DefaultAlphaTables == 3
DefaultAlphaImages == 2

\* the weights a call is compared with
WeightValues == {0, 2, 3, 5, 9}

\* the arguments of a call and what its collaborators do during it
Calls ==
    [top_k : 1..MaxTopK,
     search_text : BOOLEAN, search_tables : BOOLEAN, search_images : BOOLEAN,
     alpha_text : {0, 2, DefaultAlphaText},
     alpha_tables : {DefaultAlphaTables},
     alpha_images : {DefaultAlphaImages},
     failing : {{}, {"text"}, {"image"}},
     load_ok : BOOLEAN, predict_ok : BOOLEAN]

NoCall ==
    [top_k |-> 0, search_text |-> FALSE, search_tables |-> FALSE,
     search_images |-> FALSE, alpha_text |-> 0, alpha_tables |-> 0,
     alpha_images |-> 0, failing |-> {}, load_ok |-> FALSE, predict_ok |-> FALSE]

----------------------------------------------------------------------------
(* Retrieval of the tables and images behind search results                *)
(* (retrieval_service.py)                                                  *)
(*                                                                         *)
(* An id is a sequence of tokens: <<"d1", "_table_", "0">> is the table id *)
(* "d1_table_0" of document <<"d1">>. A store call appends to the log of   *)
(* fetches; the call whose position in the log is fail_at raises.          *)

RECURSIVE SplitTokens(_, _)
\* str.split(sep) of an id
SplitTokens(id, sep) ==
    IF \A i \in DOMAIN id : id[i] # sep THEN <<id>>
    ELSE LET p == Min({i \in DOMAIN id : id[i] = sep}) IN
         <<SubSeq(id, 1, p - 1)>> \o SplitTokens(SubSeq(id, p + 1, Len(id)), sep)

\* one call of the document repository
Fetch(op, key) == [op |-> op, key |-> key]

\* document_repo.get_tables_by_document(document_id)
get_tables_by_document(repo, document_id) ==
    SelectSeq(repo.tables, LAMBDA t : t.document_id = document_id)

\* document_repo.get_images_by_document(document_id)
get_images_by_document(repo, document_id) ==
    SelectSeq(repo.images, LAMBDA img : img.document_id = document_id)

\* document_repo.get_image_by_id(image_id): the image, or nothing
get_image_by_id(repo, image_id) ==
    SelectSeq(repo.images, LAMBDA img : img.image_id = image_id)

\* [table_map[tid] for tid in table_ids if tid in table_map]
TablesInIdOrder(table_ids, all_tables) ==
    Flatten([i \in 1..Len(table_ids) |->
                SelectSeq(all_tables, LAMBDA t : t.table_id = table_ids[i])])

\* [image_map[iid] for iid in image_ids if iid in image_map]
ImagesInIdOrder(image_ids, all_images) ==
    Flatten([i \in 1..Len(image_ids) |->
                SelectSeq(all_images, LAMBDA img : img.image_id = image_ids[i])])

\* the store call about to be logged raises
Raises(log, fail_at) == Len(log) + 1 = fail_at

RECURSIVE TableLoop(_, _, _, _, _)
\* retrieve_tables without a document id: one repository call per table id
\* of the form {doc_id}_table_{idx}; an exception ends the loop
TableLoop(repo, table_ids, tables, log, fail_at) ==
    IF table_ids = <<>> THEN [tables |-> tables, log |-> log]
    ELSE LET table_id == Head(table_ids)
             parts == SplitTokens(table_id, "_table_")
         IN IF Len(parts) # 2
            THEN TableLoop(repo, Tail(table_ids), tables, log, fail_at)
            ELSE IF Raises(log, fail_at)
            THEN [tables |-> tables,
                  log |-> Append(log, Fetch("get_tables_by_document", parts[1]))]
            ELSE TableLoop(repo, Tail(table_ids),
                     tables \o SelectSeq(get_tables_by_document(repo, parts[1]),
                                         LAMBDA t : t.table_id = table_id),
                     Append(log, Fetch("get_tables_by_document", parts[1])),
                     fail_at)

\* RetrievalOrchestrator.retrieve_tables; document_id <<>> is None
retrieve_tables(repo, table_ids, document_id, log, fail_at) ==
    IF table_ids = <<>> THEN [tables |-> <<>>, log |-> log]
    ELSE IF document_id # <<>>
    THEN [tables |-> IF Raises(log, fail_at) THEN <<>>
                     ELSE TablesInIdOrder(table_ids,
                              get_tables_by_document(repo, document_id)),
          log |-> Append(log, Fetch("get_tables_by_document", document_id))]
    ELSE TableLoop(repo, table_ids, <<>>, log, fail_at)

RECURSIVE ImageLoop(_, _, _, _, _)
\* retrieve_images without a document id: one repository call per image id;
\* raised tells that an exception ended the loop
ImageLoop(repo, image_ids, images, log, fail_at) ==
    IF image_ids = <<>> THEN [images |-> images, log |-> log, raised |-> FALSE]
    ELSE IF Raises(log, fail_at)
    THEN [images |-> images,
          log |-> Append(log, Fetch("get_image_by_id", Head(image_ids))),
          raised |-> TRUE]
    ELSE ImageLoop(repo, Tail(image_ids),
                   images \o get_image_by_id(repo, Head(image_ids)),
                   Append(log, Fetch("get_image_by_id", Head(image_ids))),
                   fail_at)

\* img.image_path and Path(img.image_path).exists()
FileExists(files, img) == img.image_path # "" /\ img.image_path \in files

\* the images fetched inside the try block of retrieve_images
FetchedImages(repo, image_ids, document_id, log, fail_at) ==
    IF document_id # <<>>
    THEN [images |-> IF Raises(log, fail_at) THEN <<>>
                     ELSE ImagesInIdOrder(image_ids,
                              get_images_by_document(repo, document_id)),
          log |-> Append(log, Fetch("get_images_by_document", document_id)),
          raised |-> Raises(log, fail_at)]
    ELSE ImageLoop(repo, image_ids, <<>>, log, fail_at)

\* RetrievalOrchestrator.retrieve_images: the except branch skips the
\* verification and falls through to "return images"
retrieve_images(repo, files, image_ids, document_id, verify_files, log, fail_at) ==
    IF image_ids = <<>> THEN [images |-> <<>>, log |-> log]
    ELSE LET Verified(fetched) ==
                 [images |-> IF verify_files /\ ~fetched.raised
                             THEN SelectSeq(fetched.images,
                                            LAMBDA img : FileExists(files, img))
                             ELSE fetched.images,
                  log |-> fetched.log]
         IN Verified(FetchedImages(repo, image_ids, document_id, log, fail_at))

\* all_table_ids of enrich_search_results
CollectedTableIds(search_results) ==
    UNION {IF search_results[i].source_type = "text"
           THEN Range(search_results[i].related_table_ids)
           ELSE IF search_results[i].source_type = "table"
                   /\ search_results[i].table_id # <<>>
           THEN {search_results[i].table_id}
           ELSE {} : i \in 1..Len(search_results)}

\* all_image_ids of enrich_search_results
CollectedImageIds(search_results) ==
    UNION {IF search_results[i].source_type = "text"
           THEN Range(search_results[i].related_image_ids)
           ELSE IF search_results[i].source_type = "image"
                   /\ search_results[i].image_id # <<>>
           THEN {search_results[i].image_id}
           ELSE {} : i \in 1..Len(search_results)}

\* list(a_set): the elements in some order, each once
Orders(S) == {q \in [1..Cardinality(S) -> S] : Range(q) = S}

\* RetrievalOrchestrator.enrich_search_results; table_ids and image_ids are
\* list(all_table_ids) and list(all_image_ids)
enrich_search_results(repo, files, search_results, table_ids, image_ids, fail_at) ==
    LET Images(t) ==
            LET Enriched(g) ==
                    [text_chunks |-> SelectSeq(search_results,
                                        LAMBDA r : r.source_type = "text"),
                     tables |-> t.tables, images |-> g.images,
                     table_count |-> Len(t.tables), image_count |-> Len(g.images),
                     log |-> g.log]
            IN Enriched(retrieve_images(repo, files, image_ids, <<>>, TRUE,
                                      t.log, fail_at))
    IN Images(retrieve_tables(repo, table_ids, <<>>, <<>>, fail_at))

\* the repository, the files on disk and the results explored
DocId(d) == <<d>>

TableId(d, idx) == <<d, "_table_", idx>>

ImageId(d, page, idx) == <<d, "_p", page, "_img", idx>>

StoredTable(d, idx) == [table_id |-> TableId(d, idx), document_id |-> DocId(d)]

StoredImage(d, page, idx, image_path) ==
    [image_id |-> ImageId(d, page, idx), document_id |-> DocId(d),
     image_path |-> image_path]

RepoChoices ==
    { [tables |-> <<StoredTable("d1", "0"), StoredTable("d1", "1"),
                    StoredTable("d2", "0")>>,
       images |-> <<StoredImage("d1", "1", "0", "a.png"),
                    StoredImage("d1", "2", "0", "b.png"),
                    StoredImage("d2", "1", "0", "")>>] }

FileChoices == {{"a.png", "b.png"}, {"b.png"}, {}}

\* a search result as enrich_search_results reads it
Result(source_type, table_id, image_id, related_table_ids, related_image_ids) ==
    [source_type |-> source_type, table_id |-> table_id, image_id |-> image_id,
     related_table_ids |-> related_table_ids,
     related_image_ids |-> related_image_ids]

ResultPool ==
    << Result("text", <<>>, <<>>,
              <<TableId("d1", "0"), TableId("d1", "1")>>,
              <<ImageId("d1", "1", "0"), ImageId("d1", "2", "0")>>),
       Result("text", <<>>, <<>>, <<>>, <<>>),
       Result("table", TableId("d1", "1"), <<>>, <<>>, <<>>),
       Result("table", TableId("d2", "0"), <<>>, <<>>, <<>>),
       Result("table", <<"legacy7">>, <<>>, <<>>, <<>>),
       Result("image", <<>>, ImageId("d1", "2", "0"), <<>>, <<>>),
       Result("image", <<>>, ImageId("d2", "1", "0"), <<>>, <<>>),
       Result("image", <<>>, ImageId("d3", "1", "0"), <<>>, <<>>) >>

MaxResults == 2

ResultLists == SeqsUpTo(Range(ResultPool), MaxResults)

MaxFailAt == 3

----------------------------------------------------------------------------
(* Inline citations (chat_controller.py, query_controller.py)              *)
(*                                                                         *)
(* An answer is a sequence of one-character strings; "ndash" stands for    *)
(* the en-dash character.                                                  *)

Letters ==
    {"a", "b", "c", "d", "e", "f", "g", "h", "i", "j", "k", "l", "m",
     "n", "o", "p", "q", "r", "s", "t", "u", "v", "w", "x", "y", "z",
     "A", "B", "C", "D", "E", "F", "G", "H", "I", "J", "K", "L", "M",
     "N", "O", "P", "Q", "R", "S", "T", "U", "V", "W", "X", "Y", "Z"}

\* \w
IsWordChar(c) == IsDigit(c) \/ c \in Letters \/ c = "_"

\* [\d\-–]
IsPageChar(c) == IsDigit(c) \/ c \in {"-", "ndash"}

\* the character at position i, "" past the end
At(t, i) == IF i \in DOMAIN t THEN t[i] ELSE ""

\* the literal lit stands at position i
LitAt(t, i, lit) ==
    i >= 1 /\ i + Len(lit) - 1 <= Len(t) /\ SubSeq(t, i, i + Len(lit) - 1) = lit

\* where a greedy \s*, \d*, [\d\-–]* or \w* that starts at i ends
SpacesEnd(t, i) == Min({j \in i..(Len(t) + 1) : ~IsSpace(At(t, j))})

DigitsEnd(t, i) == Min({j \in i..(Len(t) + 1) : ~IsDigit(At(t, j))})

PageCharsEnd(t, i) == Min({j \in i..(Len(t) + 1) : ~IsPageChar(At(t, j))})

WordEnd(t, i) == Min({j \in i..(Len(t) + 1) : ~IsWordChar(At(t, j))})

SourceWord == <<"S", "o", "u", "r", "c", "e">>

PageWord == <<"P", "a", "g", "e">>

\* (?:Pages?|p\.?) and Pages? as alternatives, in the order the regex tries them
ChatPageWords == <<PageWord \o <<"s">>, PageWord, <<"p", ".">>, <<"p">>>>

QueryPageWords == <<PageWord \o <<"s">>, PageWord>>

\* where the page word that starts at i ends, 0 when there is none
PageWordEnd(t, i, words) ==
    LET fit == {k \in DOMAIN words : LitAt(t, i, words[k])} IN
    IF fit = {} THEN 0 ELSE i + Len(words[Min(fit)])

NoMatch == [ok |-> FALSE, group1 |-> <<>>, page_range |-> <<>>, end |-> 0]

\* \s*(?:Pages?|p\.?)\s*([\d\-–]+)\] from position i
TailMatch(t, i, words) ==
    LET Pages(c) ==
            LET d == PageCharsEnd(t, c) IN
            IF d > c /\ At(t, d) = "]"
            THEN [ok |-> TRUE, group1 |-> <<>>, page_range |-> SubSeq(t, c, d - 1),
                  end |-> d]
            ELSE NoMatch
        Word(b) == IF b = 0 THEN NoMatch ELSE Pages(SpacesEnd(t, b))
    IN Word(PageWordEnd(t, SpacesEnd(t, i), words))

\* \[Source\s+(\d+),\s*(?:Pages?|p\.?)\s*([\d\-–]+)\] at position i
SourceMatchAt(t, i, words) ==
    LET a == i + 1 + Len(SourceWord)
        Number(b) ==
            LET Comma(c) ==
                    IF c > b /\ At(t, c) = ","
                    THEN [TailMatch(t, c + 1, words) EXCEPT
                              !.group1 = SubSeq(t, b, c - 1)]
                    ELSE NoMatch
            IN IF b > a THEN Comma(DigitsEnd(t, b)) ELSE NoMatch
    IN IF LitAt(t, i, <<"[">> \o SourceWord) THEN Number(SpacesEnd(t, a))
       ELSE NoMatch

\* \.\w{2,5}, and the tail from the dot at position j
ExtensionMatch(t, j, words) ==
    LET Ext(w) ==
            IF w - j - 1 \in 2..5 /\ At(t, w) = ","
            THEN [TailMatch(t, w + 1, words) EXCEPT !.group1 = SubSeq(t, 1, w - 1)]
            ELSE NoMatch
    IN IF At(t, j) = "." THEN Ext(WordEnd(t, j + 1)) ELSE NoMatch

\* \[(.+?\.\w{2,5}),\s*(?:Pages?|p\.?)\s*([\d\-–]+)\] at position i: the
\* lazy .+? takes the fewest characters, none of them a newline
FileMatchAt(t, i, words) ==
    LET line_end == Min({j \in (i + 1)..(Len(t) + 1) : At(t, j) \in {"\n", ""}})
        dots == {j \in (i + 2)..(line_end - 1) : ExtensionMatch(t, j, words).ok}
        First(m) == [m EXCEPT !.group1 = SubSeq(m.group1, i + 1, Len(m.group1))]
    IN IF At(t, i) = "[" /\ dots # {}
       THEN First(ExtensionMatch(t, Min(dots), words))
       ELSE NoMatch

\* the match of one of the two patterns at position i
PatternMatchAt(pattern, t, i, words) ==
    IF pattern = "file" THEN FileMatchAt(t, i, words)
    ELSE SourceMatchAt(t, i, words)

\* str.strip()
StripChars(t) ==
    LET kept == {i \in DOMAIN t : ~IsSpace(t[i])} IN
    IF kept = {} THEN <<>> ELSE SubSeq(t, Min(kept), Max(kept))

DigitValue(c) ==
    CHOOSE n \in 0..9 : <<"0", "1", "2", "3", "4", "5", "6", "7", "8", "9">>[n + 1] = c

RECURSIVE ToInt(_)
\* int(digits)
ToInt(digits) ==
    IF digits = <<>> THEN 0
    ELSE 10 * ToInt(SubSeq(digits, 1, Len(digits) - 1))
             + DigitValue(digits[Len(digits)])

\* str.isdigit()
IsDigits(part) == part # <<>> /\ \A i \in DOMAIN part : IsDigit(part[i])

RECURSIVE SplitOnAny(_, _)
\* re.split on a class of one-character separators, str.split on one
SplitOnAny(t, seps) ==
    IF \A i \in DOMAIN t : t[i] \notin seps THEN <<t>>
    ELSE LET p == Min({i \in DOMAIN t : t[i] \in seps}) IN
         <<SubSeq(t, 1, p - 1)>> \o SplitOnAny(SubSeq(t, p + 1, Len(t)), seps)

\* pages: the numeric parts of the page range
ParsedPages(page_range, seps) ==
    LET parts == SelectSeq(SplitOnAny(page_range, seps), IsDigits) IN
    [k \in 1..Len(parts) |-> ToInt(parts[k])]

UnknownFile == <<"U", "n", "k", "n", "o", "w", "n">>

\* chunk_doc_map: for the i-th context chunk its document, file and pages
chunk_doc_map(context_chunks, sources_map) ==
    [i \in 1..Len(context_chunks) |->
        LET chunk == context_chunks[i]
            doc_id == IF chunk.chunk_id # <<>>
                      THEN SplitTokens(chunk.chunk_id, "_chunk_")[1] ELSE <<>>
        IN [document_id |-> doc_id,
            filename |-> IF doc_id \in DOMAIN sources_map
                         THEN sources_map[doc_id].filename ELSE UnknownFile,
            section_title |-> chunk.section_title,
            page_start |-> chunk.page_start, page_end |-> chunk.page_end]]

\* filename_doc_map: the documents of sources_map by their file name
filename_doc_map(sources_map) ==
    LET named == {d \in DOMAIN sources_map : sources_map[d].filename # <<>>} IN
    [f \in {sources_map[d].filename : d \in named} |->
        CHOOSE d \in named : sources_map[d].filename = f]

\* f'[{info["filename"]}, Page {page_range}]'
FileCitation(filename, page_range) ==
    <<"[">> \o filename \o <<",", " ">> \o PageWord \o <<" ">> \o page_range \o <<"]">>

\* a citation record; source_number 0: the record has no source number
Citation(source_number, document_id, filename, section_title, pages) ==
    [source_number |-> source_number, document_id |-> document_id,
     filename |-> filename, section_title |-> section_title, pages |-> pages]

\* the record and the text of a citation of context chunk source_num
SourceCitation(source_num, page_range, pages, chunks_map) ==
    LET info == chunks_map[source_num] IN
    [text |-> FileCitation(info.filename, page_range),
     cited |-> <<Citation(source_num, info.document_id, info.filename,
                          info.section_title,
                          IF pages # <<>> THEN pages
                          ELSE <<info.page_start, info.page_end>>)>>]

\* ChatController._enrich_inline_citations.replace_citation; whole is
\* match.group(0)
ChatReplaceCitation(m, whole, chunks_map, files_map) ==
    LET pages == ParsedPages(m.page_range, {"-", "ndash"})
        a == 1 + Len(SourceWord)
        b == SpacesEnd(m.group1, a)
        c == DigitsEnd(m.group1, b)
        source_match == LitAt(m.group1, 1, SourceWord) /\ b > a /\ c > b
        filename == StripChars(m.group1)
    IN IF source_match
       THEN IF ToInt(SubSeq(m.group1, b, c - 1)) \in DOMAIN chunks_map
            THEN SourceCitation(ToInt(SubSeq(m.group1, b, c - 1)), m.page_range,
                                pages, chunks_map)
            ELSE [text |-> whole, cited |-> <<>>]
       ELSE IF filename \in DOMAIN files_map
            THEN [text |-> whole,
                  cited |-> <<Citation(0, files_map[filename], filename, "", pages)>>]
            ELSE [text |-> whole, cited |-> <<>>]

\* QueryController._enrich_inline_citations.replace_citation
QueryReplaceCitation(m, whole, chunks_map) ==
    IF ToInt(m.group1) \in DOMAIN chunks_map
    THEN SourceCitation(ToInt(m.group1), m.page_range,
                        ParsedPages(m.page_range, {"-"}), chunks_map)
    ELSE [text |-> whole, cited |-> <<>>]

ReplaceCitation(controller, m, whole, chunks_map, files_map) ==
    IF controller = "chat" THEN ChatReplaceCitation(m, whole, chunks_map, files_map)
    ELSE QueryReplaceCitation(m, whole, chunks_map)

RECURSIVE ReSub(_, _, _, _, _, _, _, _)
\* re.sub(pattern, replace_citation, text) from position pos on: the leftmost
\* match is replaced and the scan goes on behind it
ReSub(controller, pattern, words, t, pos, chunks_map, files_map, inline_citations) ==
    LET starts == {i \in pos..Len(t) : PatternMatchAt(pattern, t, i, words).ok}
        Replaced(i, m) ==
            LET Rest(r) ==
                    LET Joined(rest) ==
                            [text |-> SubSeq(t, pos, i - 1) \o r.text \o rest.text,
                             inline_citations |-> rest.inline_citations]
                    IN Joined(ReSub(controller, pattern, words, t, m.end + 1,
                                   chunks_map, files_map,
                                   inline_citations \o r.cited))
            IN Rest(ReplaceCitation(controller, m, SubSeq(t, i, m.end),
                                    chunks_map, files_map))
    IN IF starts = {}
       THEN [text |-> SubSeq(t, pos, Len(t)), inline_citations |-> inline_citations]
       ELSE Replaced(Min(starts), PatternMatchAt(pattern, t, Min(starts), words))

\* ChatController._enrich_inline_citations: (enriched, inline_citations)
ChatEnrichInlineCitations(answer, context_chunks, sources_map) ==
    LET Second(first) ==
            ReSub("chat", "source", ChatPageWords, first.text, 1,
                  chunk_doc_map(context_chunks, sources_map),
                  filename_doc_map(sources_map), first.inline_citations)
    IN Second(ReSub("chat", "file", ChatPageWords, answer, 1,
                    chunk_doc_map(context_chunks, sources_map),
                    filename_doc_map(sources_map), <<>>))

\* QueryController._enrich_inline_citations: (enriched, inline_citations)
QueryEnrichInlineCitations(answer, context_chunks, sources_map) ==
    ReSub("query", "source", QueryPageWords, answer, 1,
          chunk_doc_map(context_chunks, sources_map),
          filename_doc_map(sources_map), <<>>)

\* the answers, context chunks and sources explored
WellPdf == <<"w", "e", "l", "l", ".", "p", "d", "f">>

RigPdf == <<"r", "i", "g", ".", "p", "d", "f">>

\* a piece of an answer: its text and, for a [Source N, ...] placeholder, the
\* ordinal N (0 otherwise), the characters of its page range and the pages
\* that range names
Piece(text, kind, source, page_range, pages) ==
    [text |-> text, kind |-> kind, source |-> source, page_range |-> page_range,
     pages |-> pages]

\* [Source N, <word> <range>]
Placeholder(kind, source, number, word, page_range, pages) ==
    Piece(<<"[">> \o SourceWord \o <<" ">> \o number \o <<",", " ">> \o word
              \o <<" ">> \o page_range \o <<"]">>,
          kind, source, page_range, pages)

PiecePool ==
    << Placeholder("range", 1, <<"1">>, PageWord, <<"3", "-", "4">>, <<3, 4>>),
       Placeholder("range", 2, <<"2">>, PageWord, <<"1", "0", "-", "1", "2">>, <<10, 12>>),
       Placeholder("single", 2, <<"2">>, PageWord, <<"9">>, <<9>>),
       Placeholder("ndash", 1, <<"1">>, PageWord, <<"3", "ndash", "4">>, <<3, 4>>),
       Placeholder("nopage", 1, <<"1">>, PageWord, <<"-">>, <<>>),
       Placeholder("range", 3, <<"3">>, PageWord, <<"1", "-", "2">>, <<1, 2>>),
       Piece(FileCitation(WellPdf, <<"5">>), "file", 0, <<"5">>, <<5>>),
       Piece(<<" ", "a", "n", "d", " ">>, "text", 0, <<>>, <<>>),
       Piece(<<"\n">>, "text", 0, <<>>, <<>>) >>

MaxPieces == 3

\* an answer is the text of at most MaxPieces pieces
AnswerPieces ==
    {[i \in 1..Len(q) |-> PiecePool[q[i]]] :
        q \in SeqsUpTo(1..Len(PiecePool), MaxPieces)}

AnswerText(pieces) == Flatten([i \in 1..Len(pieces) |-> pieces[i].text])

ContextChunk(chunk_id, section_title, page_start, page_end) ==
    [chunk_id |-> chunk_id, section_title |-> section_title,
     page_start |-> page_start, page_end |-> page_end]

\* the chunks given to the LLM as Source 1, Source 2 and the documents known
ContextChoices ==
    { [context_chunks |-> <<ContextChunk(<<"d1", "_chunk_", "0">>, "Intro", 7, 8),
                            ContextChunk(<<"d2", "_chunk_", "3">>, "Rig", 1, 1)>>,
       sources_map |-> (DocId("d1") :> [filename |-> WellPdf])
                           @@ (DocId("d2") :> [filename |-> RigPdf])],
      [context_chunks |-> <<ContextChunk(<<"d1", "_chunk_", "0">>, "Intro", 7, 8),
                            ContextChunk(<<>>, "Rig", 1, 1)>>,
       sources_map |-> (DocId("d1") :> [filename |-> WellPdf])] }

----------------------------------------------------------------------------
(* DocumentController.process_document: parse, chunk, store, index, and    *)
(* the status of the document.                                             *)

\* batch_id: Optional[str]
BatchIds == {"none", "b1"}

\* the call of process_document that raises, "none" when none does
FailurePoints ==
    {"none", "get_by_id", "parse_document", "store_chunks", "index_chunks",
     "store_images", "index_tables"}

\* self.status_manager.update_file_status(batch_id, filename, status, ...),
\* called only with a batch_id
update_file_status(batch_id, file_statuses, status) ==
    IF batch_id # "none" THEN Append(file_statuses, status) ELSE file_statuses

\* ChunkRepository.store_chunks: nothing to do, and nothing to fail, without chunks
store_chunks(new_chunks, fail_at) ==
    IF new_chunks = <<>> THEN [stored |-> <<>>, error |-> ""]
    ELSE IF fail_at = "store_chunks" THEN [stored |-> <<>>, error |-> "store_chunks"]
    ELSE [stored |-> new_chunks, error |-> ""]

\* an indexer that accepts an empty list of chunks
IndexNothing(new_chunks, fail_at) ==
    IF fail_at = "index_chunks" /\ new_chunks # <<>>
    THEN [indexed |-> <<>>, error |-> "index_chunks"]
    ELSE [indexed |-> new_chunks, error |-> ""]

\* Indexer.index_chunks: raises ValueError without chunks
index_chunks(new_chunks, fail_at) ==
    IF new_chunks = <<>> THEN [indexed |-> <<>>, error |-> "No chunks to index"]
    ELSE IF fail_at = "index_chunks" THEN [indexed |-> <<>>, error |-> "index_chunks"]
    ELSE [indexed |-> new_chunks, error |-> ""]

\* the images and the tables of the document are stored and indexed
StoreImagesAndTables(run, parsed, batch_id, fail_at) ==
    LET with_images ==
            IF run.error # "" \/ parsed.images = <<>> THEN run
            ELSE LET f == update_file_status(batch_id,
                              update_file_status(batch_id, run.file_statuses,
                                                 "analyzing_images"),
                              "indexing_images")
                 IN  IF fail_at = "store_images"
                     THEN [run EXCEPT !.file_statuses = f, !.error = "store_images"]
                     ELSE [run EXCEPT !.file_statuses = f, !.images = parsed.images]
    IN  IF with_images.error # "" \/ parsed.tables = <<>> THEN with_images
        ELSE LET f == update_file_status(batch_id, with_images.file_statuses,
                                         "indexing_tables")
             IN  IF fail_at = "index_tables"
                 THEN [with_images EXCEPT !.file_statuses = f, !.tables = parsed.tables,
                                          !.error = "index_tables"]
                 ELSE [with_images EXCEPT !.file_statuses = f, !.tables = parsed.tables]

\* the chunks of the document are stored and indexed
StoreAndIndexChunks(run, new_chunks, batch_id, fail_at) ==
    LET stored == store_chunks(new_chunks, fail_at)
        indexing == update_file_status(batch_id, run.file_statuses, "indexing")
        indexed == index_chunks(new_chunks, fail_at)
    IN  IF stored.error # ""
        THEN [run EXCEPT !.chunks = new_chunks, !.error = stored.error]
        ELSE IF indexed.error # ""
        THEN [run EXCEPT !.chunks = new_chunks, !.stored = stored.stored,
                         !.file_statuses = indexing, !.error = indexed.error]
        ELSE [run EXCEPT !.chunks = new_chunks, !.stored = stored.stored,
                         !.file_statuses = indexing, !.indexed = indexed.indexed]

\* the body of the try block of process_document, up to the first exception
ProcessingBody(self, parsed, batch_id, fail_at) ==
    LET parsing == update_file_status(batch_id,
                       update_file_status(batch_id, <<>>, "processing"), "parsing")
        start == [statuses |-> <<"processing">>, file_statuses |-> parsing,
                  chunked |-> FALSE, chunks |-> <<>>, stored |-> <<>>,
                  indexed |-> <<>>, images |-> <<>>, tables |-> <<>>,
                  error |-> "", raised |-> FALSE]
        chunking == update_file_status(batch_id,
                        update_file_status(batch_id, parsing, "extracting_images"),
                        "chunking")
    IN  IF fail_at = "parse_document" THEN [start EXCEPT !.error = "parse_document"]
        ELSE StoreImagesAndTables(
                 StoreAndIndexChunks(
                     [start EXCEPT !.file_statuses = chunking, !.chunked = TRUE],
                     chunk_sections(self, parsed), batch_id, fail_at),
                 parsed, batch_id, fail_at)

\* nothing was done for the document
NotProcessed ==
    [statuses |-> <<>>, file_statuses |-> <<>>, chunked |-> FALSE, chunks |-> <<>>,
     stored |-> <<>>, indexed |-> <<>>, images |-> <<>>, tables |-> <<>>,
     error |-> "", raised |-> FALSE]

\* the end of process_document: COMPLETED after the try block, FAILED and
\* ProcessingError from its except block
CompletedOrFailed(run, batch_id) ==
    IF run.error = ""
    THEN [run EXCEPT !.statuses = Append(@, "completed"),
                     !.file_statuses = update_file_status(batch_id, @, "completed")]
    ELSE [run EXCEPT !.statuses = Append(@, "failed"),
                     !.file_statuses = update_file_status(batch_id, @, "failed"),
                     !.raised = TRUE]

\* DocumentController.process_document(document_id, batch_id): statuses are the
\* calls of document_repo.update_status in order, raised tells ProcessingError
process_document(self, found, parsed, batch_id, fail_at) ==
    IF fail_at = "get_by_id" THEN NotProcessed
    ELSE IF ~found
    THEN [NotProcessed EXCEPT !.file_statuses = update_file_status(batch_id, <<>>, "failed")]
    ELSE CompletedOrFailed(ProcessingBody(self, parsed, batch_id, fail_at), batch_id)

\* the parsed sections of the uploaded documents
ParsedSectionPool ==
    << Section("s1", Rep("a", 40), 1, 1), Section("s2", Rep("b", 99), 1, 1),
       Section("s3", Rep("c", 150), 2, 2), Section("s4", Rep("d", 700), 2, 2) >>

\* what pdf_parser.parse_document returns for the uploaded documents
ParsedDocuments ==
    [document_id : {"d1"}, category_id : {"c1"},
     sections : {[i \in 1..Len(q) |-> ParsedSectionPool[q[i]]] :
                    q \in SeqsUpTo(1..Len(ParsedSectionPool), MaxSections)},
     tables : {<<>>, << Table(Rep("x", 1), 2, TableMarkdownX) >>},
     images : {<<>>, << Image("i1", 1), Image("i2", 2) >>}]

----------------------------------------------------------------------------
(* DocumentController.terminate_batch and _safe_process_document           *)

\* the documents of the uploaded batch, in the order of the upload
BatchOrder == <<"d1", "d2">>
BatchDocumentIds == {"d1", "d2"}

\* the positions of a task inside the second try block of process_document
BodySteps ==
    {"fetched", "processing", "parsed", "chunks_stored", "indexed", "images_stored", "tables_stored"}

\* DocumentRepository.update_status: update_one changes nothing without a record
update_status(documents, d, status) ==
    IF documents[d] = "none" THEN documents ELSE [documents EXCEPT ![d] = status]

----------------------------------------------------------------------------
(* ChatController._resolve_search_filters, UnifiedSearchService._build_filters *)

\* the documents and the categories of the library; category c3 has no documents
ChatDocumentIds == {"d1", "d2", "d3"}
ChatCategories == {[d1 |-> "c1", d2 |-> "c1", d3 |-> "c2"], [d1 |-> "c1", d2 |-> "c2", d3 |-> "c2"]}
CategoryIdChoices == {<<>>, <<"c1">>, <<"c2">>, <<"c3">>, <<"c1", "c3">>}
ChatDocumentIdChoices == {<<>>, <<"d1">>, <<"d3">>}

\* await self.document_repo.get_by_category(cat_id) for each category in turn:
\* the ids of the documents, category by category
ExpandCategories(documents, category_ids) ==
    Flatten([i \in 1..Len(category_ids) |->
                SelectSeq(<<"d1", "d2", "d3">>, LAMBDA d : documents[d] = category_ids[i])])

\* returns (resolved_category_ids, resolved_document_ids), <<>> for None
_resolve_search_filters(documents, category_ids, document_ids) ==
    IF category_ids = <<>> /\ document_ids = <<>>
    THEN [category_ids |-> <<>>, document_ids |-> <<>>]
    ELSE IF document_ids # <<>>
    THEN [category_ids |-> <<>>, document_ids |-> document_ids]
    ELSE IF ExpandCategories(documents, category_ids) = <<>>
    THEN [category_ids |-> <<>>, document_ids |-> <<>>]
    ELSE [category_ids |-> category_ids,
          document_ids |-> ExpandCategories(documents, category_ids)]

\* the points a Qdrant filter built from the ids lets through: document_ids
\* first, category_ids next, every point without either
_build_filters(points, document_ids, category_ids) ==
    IF document_ids # <<>>
    THEN {p \in points : p.document_id \in Range(document_ids)}
    ELSE IF category_ids # <<>>
    THEN {p \in points : p.category_id \in Range(category_ids)}
    ELSE points

----------------------------------------------------------------------------
(* ProcessingStatusManager                                                 *)

\* the clients that stream the status of the batch
Subscribers == {"s1", "s2"}

\* the statuses update_file_status is called with
FileStatuses == {"processing", "completed"}

\* update_file_status is called at most this many times
MaxUpdates == 3

----------------------------------------------------------------------------
(* The state of the pipeline                                               *)

VARIABLES chunker, document, phase, section_chunks, chunks

VARIABLES search_settings, index, cross_encoder, rerank_service, call, search_results, sources, search_phase

chunk_vars == <<chunker, document, phase, section_chunks, chunks>>

search_vars == <<search_settings, index, cross_encoder, rerank_service, call, search_results, sources, search_phase>>

VARIABLES repo, files, retrieval_call, fetches, retrieved, retrieval_phase

retrieval_vars == <<repo, files, retrieval_call, fetches, retrieved, retrieval_phase>>

VARIABLES answer_pieces, context, enriched, inline_citations, citation_phase

citation_vars == <<answer_pieces, context, enriched, inline_citations, citation_phase>>

VARIABLES document_repo, chunk_repo, indexer, status_manager, process_call, process_phase

processing_vars == <<document_repo, chunk_repo, indexer, status_manager, process_call, process_phase>>

VARIABLES batch_documents, batch_stores, batch_tasks, termination

batch_vars == <<batch_documents, batch_stores, batch_tasks, termination>>

VARIABLES chat_documents, chat_index, chat_messages, turn

chat_vars == <<chat_documents, chat_index, chat_messages, turn>>

VARIABLES _batches, _events, applied, streams

stream_vars == <<_batches, _events, applied, streams>>

vars == <<chunk_vars, search_vars, retrieval_vars, citation_vars, processing_vars, batch_vars,
          chat_vars, stream_vars>>

\* no document is being chunked
NoDocument ==
    /\ chunker = SectionChunkerInit([min_chunk_size |-> DefaultMinChunkSize, max_chunk_size |-> DefaultMaxChunkSize, chunk_overlap_percentage |-> DefaultOverlapPercent])
    /\ document = [document_id |-> "d1", category_id |-> "c1", sections |-> <<>>, tables |-> <<>>, images |-> <<>>]
    /\ phase = "idle"
    /\ section_chunks = <<>>
    /\ chunks = <<>>

\* no query is being answered
NoQuery ==
    /\ search_settings = [similarity_threshold |-> DefaultSimilarityThreshold, rerank_top_k |-> DefaultRerankTopK, use_reranker |-> TRUE]
    /\ index = [text |-> <<>>, table |-> <<>>, image |-> <<>>]
    /\ cross_encoder \in CrossEncoderChoices
    /\ rerank_service = RerankServiceInit
    /\ call = NoCall
    /\ search_results = <<>>
    /\ sources = NoSources
    /\ search_phase = "idle"

NoRetrievalCall ==
    [op |-> "none", search_results |-> <<>>, table_ids |-> <<>>, image_ids |-> <<>>,
     document_id |-> <<>>, verify_files |-> FALSE, fail_at |-> 0]

NothingRetrieved == [text_chunks |-> <<>>, tables |-> <<>>, images |-> <<>>]

\* nothing is being retrieved
NoRetrieval ==
    /\ repo = [tables |-> <<>>, images |-> <<>>]
    /\ files = {}
    /\ retrieval_call = NoRetrievalCall
    /\ fetches = <<>>
    /\ retrieved = NothingRetrieved
    /\ retrieval_phase = "idle"

\* no answer is being enriched
NoAnswer ==
    /\ answer_pieces = <<>>
    /\ context = [context_chunks |-> <<>>, sources_map |-> <<>>]
    /\ enriched = <<>>
    /\ inline_citations = <<>>
    /\ citation_phase = "idle"

NoProcessCall == [batch_id |-> "none", fail_at |-> "none", raised |-> FALSE]

\* no document is being processed
NoProcessing ==
    /\ document_repo = [found |-> FALSE, status |-> "pending", statuses |-> <<>>,
                        processing_errors |-> <<>>, images |-> <<>>, tables |-> <<>>]
    /\ chunk_repo = <<>>
    /\ indexer = [chunks |-> <<>>, tables |-> <<>>]
    /\ status_manager = <<>>
    /\ process_call = NoProcessCall
    /\ process_phase = "idle"

NoTermination == [pc |-> "idle", documents |-> <<>>, todo |-> <<>>, step |-> "next"]

\* no batch was uploaded
NoBatch ==
    /\ batch_documents = <<>>
    /\ batch_stores = [files |-> {}, chunks |-> {}, vectors |-> {}, images |-> {}, tables |-> {}]
    /\ batch_tasks = <<>>
    /\ termination = NoTermination

NoTurn ==
    [op |-> "none", pc |-> "idle", category_ids |-> <<>>, document_ids |-> <<>>,
     is_relevant |-> TRUE, llm_fails |-> FALSE,
     filters |-> [category_ids |-> <<>>, document_ids |-> <<>>], search_results |-> {}]

\* no chat turn is under way
NoChat ==
    /\ chat_documents = <<>>
    /\ chat_index = {}
    /\ chat_messages = <<>>
    /\ turn = NoTurn

\* no batch status is tracked
NoStream ==
    /\ _batches = <<>>
    /\ _events = [created |-> FALSE, items |-> <<>>]
    /\ applied = <<>>
    /\ streams = <<>>

----------------------------------------------------------------------------
(* The chunker as a state machine                                          *)

\* get_settings(), SectionChunker(), and a parsed document waiting to be chunked
InitChunker ==
    /\ chunker \in {SectionChunkerInit(s) : s \in ChunkSettings}
    /\ document \in Documents
    /\ phase = "parsed"
    /\ section_chunks = <<>>
    /\ chunks = <<>>
    /\ NoQuery
    /\ NoRetrieval
    /\ NoAnswer
    /\ NoProcessing
    /\ NoBatch
    /\ NoChat
    /\ NoStream

\* chunks = chunker.chunk_sections(document_id, sections, images, tables, category_id)
ChunkSections ==
    /\ phase = "parsed"
    /\ phase' = "chunked"
    /\ section_chunks' = SectionChunks(chunker, document)
    /\ chunks' = ChunkPasses(chunker, document.document_id, Flatten(section_chunks'))
    /\ UNCHANGED <<chunker, document>>
    /\ UNCHANGED <<search_vars, retrieval_vars, citation_vars, processing_vars, batch_vars, chat_vars, stream_vars>>

NextChunker == ChunkSections

SpecChunker == InitChunker /\ [][NextChunker]_vars

\* a parsed document of three sections waiting to be chunked
InitThreeSections ==
    /\ chunker \in {SectionChunkerInit(s) : s \in ChunkSettings}
    /\ document \in ThreeSectionDocuments
    /\ phase = "parsed"
    /\ section_chunks = <<>>
    /\ chunks = <<>>
    /\ NoQuery
    /\ NoRetrieval
    /\ NoAnswer
    /\ NoProcessing
    /\ NoBatch
    /\ NoChat
    /\ NoStream

SpecThreeSections == InitThreeSections /\ [][NextChunker]_vars

\* a parsed document with a padded line waiting to be chunked
InitPaddedLines ==
    /\ chunker \in {SectionChunkerInit(s) : s \in ChunkSettings}
    /\ document \in PaddedDocuments
    /\ phase = "parsed"
    /\ section_chunks = <<>>
    /\ chunks = <<>>
    /\ NoQuery
    /\ NoRetrieval
    /\ NoAnswer
    /\ NoProcessing
    /\ NoBatch
    /\ NoChat
    /\ NoStream

SpecPaddedLines == InitPaddedLines /\ [][NextChunker]_vars

\* a parsed document with header lines waiting to be chunked
InitRepeatedHeaders ==
    /\ chunker \in {SectionChunkerInit(s) : s \in ChunkSettings}
    /\ document \in HeaderDocuments
    /\ phase = "parsed"
    /\ section_chunks = <<>>
    /\ chunks = <<>>
    /\ NoQuery
    /\ NoRetrieval
    /\ NoAnswer
    /\ NoProcessing
    /\ NoBatch
    /\ NoChat
    /\ NoStream

SpecRepeatedHeaders == InitRepeatedHeaders /\ [][NextChunker]_vars

\* a parsed document with table markers in its text waiting to be chunked
InitTableMarkers ==
    /\ chunker \in {SectionChunkerInit(s) : s \in ChunkSettings}
    /\ document \in MarkerDocuments
    /\ phase = "parsed"
    /\ section_chunks = <<>>
    /\ chunks = <<>>
    /\ NoQuery
    /\ NoRetrieval
    /\ NoAnswer
    /\ NoProcessing
    /\ NoBatch
    /\ NoChat
    /\ NoStream

SpecTableMarkers == InitTableMarkers /\ [][NextChunker]_vars

\* a parsed document of short and long sections waiting to be chunked
InitMergeSizes ==
    /\ chunker \in {SectionChunkerInit(s) : s \in ChunkSettings}
    /\ document \in MergeDocuments
    /\ phase = "parsed"
    /\ section_chunks = <<>>
    /\ chunks = <<>>
    /\ NoQuery
    /\ NoRetrieval
    /\ NoAnswer
    /\ NoProcessing
    /\ NoBatch
    /\ NoChat
    /\ NoStream

SpecMergeSizes == InitMergeSizes /\ [][NextChunker]_vars

\* a parsed document with sections to split waiting to be chunked
InitSplitTexts ==
    /\ chunker \in {SectionChunkerInit(s) : s \in ChunkSettings}
    /\ document \in SplitDocuments
    /\ phase = "parsed"
    /\ section_chunks = <<>>
    /\ chunks = <<>>
    /\ NoQuery
    /\ NoRetrieval
    /\ NoAnswer
    /\ NoProcessing
    /\ NoBatch
    /\ NoChat
    /\ NoStream

SpecSplitTexts == InitSplitTexts /\ [][NextChunker]_vars

----------------------------------------------------------------------------
(* The processing of an uploaded document as a state machine               *)

\* upload_document created the record with status PENDING, or the record is
\* gone; document is what the parser will return for the file
InitProcessing ==
    /\ chunker \in {SectionChunkerInit(s) : s \in ChunkSettings}
    /\ document \in ParsedDocuments
    /\ phase = "idle"
    /\ section_chunks = <<>>
    /\ chunks = <<>>
    /\ document_repo \in [found : BOOLEAN, status : {"pending"}, statuses : {<<>>},
                          processing_errors : {<<>>}, images : {<<>>}, tables : {<<>>}]
    /\ chunk_repo = <<>>
    /\ indexer = [chunks |-> <<>>, tables |-> <<>>]
    /\ status_manager = <<>>
    /\ process_call = NoProcessCall
    /\ process_phase = "uploaded"
    /\ NoQuery
    /\ NoRetrieval
    /\ NoAnswer
    /\ NoBatch
    /\ NoChat
    /\ NoStream

\* the repositories, the index and the batch status after the call
Recorded(run, batch_id, fail_at) ==
    /\ document_repo' =
           [document_repo EXCEPT
              !.status = IF run.statuses = <<>> THEN @
                         ELSE run.statuses[Len(run.statuses)],
              !.statuses = run.statuses,
              !.processing_errors = IF run.raised THEN <<run.error>> ELSE <<>>,
              !.images = run.images,
              !.tables = run.tables]
    /\ chunk_repo' = run.stored
    /\ indexer' = [chunks |-> run.indexed,
                   tables |-> IF run.error = "" THEN run.tables ELSE <<>>]
    /\ status_manager' = run.file_statuses
    /\ process_call' = [batch_id |-> batch_id, fail_at |-> fail_at, raised |-> run.raised]
    /\ phase' = IF run.chunked THEN "chunked" ELSE phase
    /\ chunks' = run.chunks

\* await controller.process_document(document_id, batch_id)
ProcessDocument(batch_id, fail_at) ==
    /\ process_phase = "uploaded"
    /\ process_phase' = "processed"
    /\ Recorded(process_document(chunker, document_repo.found, document, batch_id, fail_at),
                batch_id, fail_at)
    /\ UNCHANGED <<chunker, document, section_chunks>>
    /\ UNCHANGED <<search_vars, retrieval_vars, citation_vars, batch_vars, chat_vars, stream_vars>>

NextProcessing == \E batch_id \in BatchIds, fail_at \in FailurePoints : ProcessDocument(batch_id, fail_at)

SpecProcessing == InitProcessing /\ [][NextProcessing]_vars

----------------------------------------------------------------------------
(* Search and the sources of an answer as a state machine                  *)

\* get_settings(), RerankService(), UnifiedSearchService() over an index
InitSearch ==
    /\ search_settings \in SearchSettings
    /\ index \in IndexChoices
    /\ cross_encoder \in CrossEncoderChoices
    /\ rerank_service = RerankServiceInit
    /\ call = NoCall
    /\ search_results = <<>>
    /\ sources = NoSources
    /\ search_phase = "idle"
    /\ NoDocument
    /\ NoRetrieval
    /\ NoAnswer
    /\ NoProcessing
    /\ NoBatch
    /\ NoChat
    /\ NoStream

\* search_results = self.search_service.search(...)
Search(c) ==
    /\ search_phase = "idle"
    /\ LET out == search(search_settings, index, cross_encoder, rerank_service, c) IN
          /\ search_results' = out.results
          /\ rerank_service' = out.rerank_service
    /\ call' = c
    /\ search_phase' = "searched"
    /\ UNCHANGED <<search_settings, index, cross_encoder, sources>>
    /\ UNCHANGED <<chunk_vars, retrieval_vars, citation_vars, processing_vars, batch_vars, chat_vars, stream_vars>>

\* sources = await self._build_sources(search_results, category_ids)
BuildSources ==
    /\ search_phase = "searched"
    /\ sources' = _build_sources(search_results)
    /\ search_phase' = "answered"
    /\ UNCHANGED <<search_settings, index, cross_encoder, rerank_service, call, search_results>>
    /\ UNCHANGED <<chunk_vars, retrieval_vars, citation_vars, processing_vars, batch_vars, chat_vars, stream_vars>>

\* the answer is returned; the next message starts from the reranker as it is
NextMessage ==
    /\ search_phase = "answered"
    /\ call' = NoCall
    /\ search_results' = <<>>
    /\ sources' = NoSources
    /\ search_phase' = "idle"
    /\ UNCHANGED <<search_settings, index, cross_encoder, rerank_service>>
    /\ UNCHANGED <<chunk_vars, retrieval_vars, citation_vars, processing_vars, batch_vars, chat_vars, stream_vars>>

NextSearch ==
    \/ \E c \in Calls : Search(c)
    \/ BuildSources
    \/ NextMessage

SpecSearch == InitSearch /\ [][NextSearch]_vars

----------------------------------------------------------------------------
(* Retrieval as a state machine                                            *)

\* RetrievalOrchestrator(document_repo) over a repository and a disk
InitRetrieval ==
    /\ repo \in RepoChoices
    /\ files \in FileChoices
    /\ retrieval_call = NoRetrievalCall
    /\ fetches = <<>>
    /\ retrieved = NothingRetrieved
    /\ retrieval_phase = "idle"
    /\ NoDocument
    /\ NoQuery
    /\ NoAnswer
    /\ NoProcessing
    /\ NoBatch
    /\ NoChat
    /\ NoStream

\* enriched = await self.retrieval_service.enrich_search_results(search_results)
EnrichSearchResults(results, table_ids, image_ids, fail_at) ==
    /\ retrieval_phase = "idle"
    /\ LET out == enrich_search_results(repo, files, results, table_ids,
                                        image_ids, fail_at) IN
          /\ retrieved' = [text_chunks |-> out.text_chunks, tables |-> out.tables,
                           images |-> out.images]
          /\ fetches' = out.log
    /\ retrieval_call' = [op |-> "enrich_search_results", search_results |-> results,
                          table_ids |-> table_ids, image_ids |-> image_ids,
                          document_id |-> <<>>, verify_files |-> TRUE,
                          fail_at |-> fail_at]
    /\ retrieval_phase' = "retrieved"
    /\ UNCHANGED <<repo, files>>
    /\ UNCHANGED <<chunk_vars, search_vars, citation_vars, processing_vars, batch_vars, chat_vars, stream_vars>>

\* images = await self.retrieve_images(image_ids, document_id, verify_files)
RetrieveImages(image_ids, document_id, verify_files, fail_at) ==
    /\ retrieval_phase = "idle"
    /\ LET out == retrieve_images(repo, files, image_ids, document_id,
                                  verify_files, <<>>, fail_at) IN
          /\ retrieved' = [NothingRetrieved EXCEPT !.images = out.images]
          /\ fetches' = out.log
    /\ retrieval_call' = [op |-> "retrieve_images", search_results |-> <<>>,
                          table_ids |-> <<>>, image_ids |-> image_ids,
                          document_id |-> document_id, verify_files |-> verify_files,
                          fail_at |-> fail_at]
    /\ retrieval_phase' = "retrieved"
    /\ UNCHANGED <<repo, files>>
    /\ UNCHANGED <<chunk_vars, search_vars, citation_vars, processing_vars, batch_vars, chat_vars, stream_vars>>

\* tables = await self.retrieve_tables(table_ids, document_id)
RetrieveTables(table_ids, document_id, fail_at) ==
    /\ retrieval_phase = "idle"
    /\ LET out == retrieve_tables(repo, table_ids, document_id, <<>>, fail_at) IN
          /\ retrieved' = [NothingRetrieved EXCEPT !.tables = out.tables]
          /\ fetches' = out.log
    /\ retrieval_call' = [op |-> "retrieve_tables", search_results |-> <<>>,
                          table_ids |-> table_ids, image_ids |-> <<>>,
                          document_id |-> document_id, verify_files |-> FALSE,
                          fail_at |-> fail_at]
    /\ retrieval_phase' = "retrieved"
    /\ UNCHANGED <<repo, files>>
    /\ UNCHANGED <<chunk_vars, search_vars, citation_vars, processing_vars, batch_vars, chat_vars, stream_vars>>

\* the ids a caller may ask for
KnownTableIds == UNION {CollectedTableIds(q) : q \in ResultLists}

KnownImageIds == UNION {CollectedImageIds(q) : q \in ResultLists}

DocumentIdChoices == {<<>>, DocId("d1")}

NextRetrieval ==
    \/ \E results \in ResultLists :
          \E table_ids \in Orders(CollectedTableIds(results)) :
             \E image_ids \in Orders(CollectedImageIds(results)) :
                \E fail_at \in 0..MaxFailAt :
                   EnrichSearchResults(results, table_ids, image_ids, fail_at)
    \/ \E ids \in SUBSET KnownImageIds : \E image_ids \in Orders(ids) :
          \E document_id \in DocumentIdChoices : \E verify_files \in BOOLEAN :
             \E fail_at \in 0..MaxFailAt :
                RetrieveImages(image_ids, document_id, verify_files, fail_at)
    \/ \E ids \in SUBSET KnownTableIds : \E table_ids \in Orders(ids) :
          \E document_id \in DocumentIdChoices : \E fail_at \in 0..MaxFailAt :
             RetrieveTables(table_ids, document_id, fail_at)

SpecRetrieval == InitRetrieval /\ [][NextRetrieval]_vars

----------------------------------------------------------------------------
(* Citation enrichment as a state machine                                  *)

\* the LLM has answered over the context chunks
InitCitations ==
    /\ answer_pieces \in AnswerPieces
    /\ context \in ContextChoices
    /\ enriched = <<>>
    /\ inline_citations = <<>>
    /\ citation_phase = "answered"
    /\ NoDocument
    /\ NoQuery
    /\ NoRetrieval
    /\ NoProcessing
    /\ NoBatch
    /\ NoChat
    /\ NoStream

\* ChatController: answer, inline_citations = self._enrich_inline_citations(...)
ChatEnrich ==
    /\ citation_phase = "answered"
    /\ LET out == ChatEnrichInlineCitations(AnswerText(answer_pieces),
                       context.context_chunks, context.sources_map) IN
          /\ enriched' = out.text
          /\ inline_citations' = out.inline_citations
    /\ citation_phase' = "chat"
    /\ UNCHANGED <<answer_pieces, context>>
    /\ UNCHANGED <<chunk_vars, search_vars, retrieval_vars, processing_vars, batch_vars, chat_vars, stream_vars>>

\* QueryController: answer, inline_citations = self._enrich_inline_citations(...)
QueryEnrich ==
    /\ citation_phase = "answered"
    /\ LET out == QueryEnrichInlineCitations(AnswerText(answer_pieces),
                       context.context_chunks, context.sources_map) IN
          /\ enriched' = out.text
          /\ inline_citations' = out.inline_citations
    /\ citation_phase' = "query"
    /\ UNCHANGED <<answer_pieces, context>>
    /\ UNCHANGED <<chunk_vars, search_vars, retrieval_vars, processing_vars, batch_vars, chat_vars, stream_vars>>

NextCitations == ChatEnrich \/ QueryEnrich

SpecCitations == InitCitations /\ [][NextCitations]_vars

----------------------------------------------------------------------------
(* A batch, its processing tasks and its termination as a state machine    *)

\* upload_document created the documents of the batch, PENDING, and a task
\* _safe_process_document for each of them
InitBatch ==
    /\ batch_documents = [d \in BatchDocumentIds |-> "pending"]
    /\ batch_stores = [files |-> BatchDocumentIds, chunks |-> {}, vectors |-> {}, images |-> {},
                     tables |-> {}]
    /\ batch_tasks = [d \in BatchDocumentIds |-> "scheduled"]
    /\ termination = NoTermination
    /\ NoDocument
    /\ NoQuery
    /\ NoRetrieval
    /\ NoAnswer
    /\ NoProcessing
    /\ NoChat
    /\ NoStream

\* the task of document d moves on, the termination stays where it is
TaskStep(d, from, to) ==
    /\ batch_tasks[d] = from
    /\ batch_tasks' = [batch_tasks EXCEPT ![d] = to]
    /\ UNCHANGED termination
    /\ UNCHANGED <<chunk_vars, search_vars, retrieval_vars, citation_vars, processing_vars, chat_vars, stream_vars>>

\* document = await self.document_repo.get_by_id(document_id): the call raises,
\* finds nothing, or finds the document; the first two end process_document
GetDocument(d) ==
    /\ \E raises \in BOOLEAN :
           TaskStep(d, "scheduled",
                    IF raises \/ batch_documents[d] = "none" THEN "ended" ELSE "fetched")
    /\ UNCHANGED <<batch_documents, batch_stores>>

\* await self.document_repo.update_status(document_id, DocumentStatus.PROCESSING)
MarkProcessing(d) ==
    /\ TaskStep(d, "fetched", "processing")
    /\ batch_documents' = update_status(batch_documents, d, "processing")
    /\ UNCHANGED batch_stores

\* parsed = await run_in_threadpool(self.pdf_parser.parse_document, file_path, ...):
\* raises without the file, and the except block records FAILED
ParseDocument(d) ==
    /\ TaskStep(d, "processing", IF d \in batch_stores.files THEN "parsed" ELSE "ended")
    /\ batch_documents' = IF d \in batch_stores.files THEN batch_documents
                          ELSE update_status(batch_documents, d, "failed")
    /\ UNCHANGED batch_stores

\* chunk_sections, await self.chunk_repo.store_chunks(chunks)
StoreChunks(d) ==
    /\ TaskStep(d, "parsed", "chunks_stored")
    /\ batch_stores' = [batch_stores EXCEPT !.chunks = @ \cup {d}]
    /\ UNCHANGED batch_documents

\* await run_in_threadpool(self.indexer.index_chunks, ...)
IndexChunks(d) ==
    /\ TaskStep(d, "chunks_stored", "indexed")
    /\ batch_stores' = [batch_stores EXCEPT !.vectors = @ \cup {d}]
    /\ UNCHANGED batch_documents

\* await self.document_repo.store_images(images), and the image vectors
StoreImages(d) ==
    /\ TaskStep(d, "indexed", "images_stored")
    /\ batch_stores' = [batch_stores EXCEPT !.images = @ \cup {d}, !.vectors = @ \cup {d}]
    /\ UNCHANGED batch_documents

\* await self.document_repo.store_tables(tables), and the table vectors
StoreTables(d) ==
    /\ TaskStep(d, "images_stored", "tables_stored")
    /\ batch_stores' = [batch_stores EXCEPT !.tables = @ \cup {d}, !.vectors = @ \cup {d}]
    /\ UNCHANGED batch_documents

\* await self.document_repo.update_status(document_id, DocumentStatus.COMPLETED)
CompleteDocument(d) ==
    /\ TaskStep(d, "tables_stored", "ended")
    /\ batch_documents' = update_status(batch_documents, d, "completed")
    /\ UNCHANGED batch_stores

\* a call of the try block raises: the except block of process_document
\* records FAILED and raises ProcessingError, which _safe_process_document logs
FailDocument(d) ==
    /\ \E step \in BodySteps : TaskStep(d, step, "ended")
    /\ batch_documents' = update_status(batch_documents, d, "failed")
    /\ UNCHANGED batch_stores

\* asyncio.wait_for gives up: _safe_process_document records FAILED
TimeOutDocument(d) ==
    /\ \E step \in {"scheduled"} \cup BodySteps : TaskStep(d, step, "ended")
    /\ batch_documents' = update_status(batch_documents, d, "failed")
    /\ UNCHANGED batch_stores

\* the termination moves on, the tasks stay where they are
TerminationStep(next) ==
    /\ termination' = next
    /\ UNCHANGED batch_tasks
    /\ UNCHANGED <<chunk_vars, search_vars, retrieval_vars, citation_vars, processing_vars, chat_vars, stream_vars>>

\* documents = await self.document_repo.get_by_batch_id(batch_id)
ListBatch ==
    /\ termination.pc = "idle"
    /\ TerminationStep([pc |-> "loop", documents |-> batch_documents,
                        todo |-> SelectSeq(BatchOrder, LAMBDA d : batch_documents[d] # "none"),
                        step |-> "next"])
    /\ UNCHANGED <<batch_documents, batch_stores>>

\* for doc in documents: a COMPLETED document is kept; for another one
\* delete_document starts with get_by_id and raises when it finds nothing
NextDocument ==
    /\ termination.pc = "loop" /\ termination.step = "next" /\ termination.todo # <<>>
    /\ LET doc == Head(termination.todo) IN
       IF termination.documents[doc] = "completed" \/ batch_documents[doc] = "none"
       THEN TerminationStep([termination EXCEPT !.todo = Tail(@)])
       ELSE TerminationStep([termination EXCEPT !.step = "delete_vectors"])
    /\ UNCHANGED <<batch_documents, batch_stores>>

\* await run_in_threadpool(self.indexer.delete_document, document_id)
DeleteVectors ==
    /\ termination.pc = "loop" /\ termination.step = "delete_vectors"
    /\ TerminationStep([termination EXCEPT !.step = "delete_chunks"])
    /\ batch_stores' = [batch_stores EXCEPT !.vectors = @ \ {Head(termination.todo)}]
    /\ UNCHANGED batch_documents

\* await self.chunk_repo.delete_by_document(document_id)
DeleteChunks ==
    /\ termination.pc = "loop" /\ termination.step = "delete_chunks"
    /\ TerminationStep([termination EXCEPT !.step = "delete_record"])
    /\ batch_stores' = [batch_stores EXCEPT !.chunks = @ \ {Head(termination.todo)}]
    /\ UNCHANGED batch_documents

\* deleted = await self.document_repo.delete(document_id): the images, the
\* tables and the document record, then Path(document.file_path).unlink()
DeleteRecord ==
    /\ termination.pc = "loop" /\ termination.step = "delete_record"
    /\ TerminationStep([termination EXCEPT !.step = "next", !.todo = Tail(@)])
    /\ batch_stores' = [batch_stores EXCEPT !.images = @ \ {Head(termination.todo)},
                                            !.tables = @ \ {Head(termination.todo)},
                                            !.files = @ \ {Head(termination.todo)}]
    /\ batch_documents' = [batch_documents EXCEPT ![Head(termination.todo)] = "none"]

\* return {"batch_id": ..., "kept_completed": ..., "deleted_incomplete": ...}
ReturnTermination ==
    /\ termination.pc = "loop" /\ termination.step = "next" /\ termination.todo = <<>>
    /\ TerminationStep([termination EXCEPT !.pc = "returned"])
    /\ UNCHANGED <<batch_documents, batch_stores>>

\* one step of the task _safe_process_document of a document
_safe_process_document(d) ==
    \/ GetDocument(d)
    \/ MarkProcessing(d)
    \/ ParseDocument(d)
    \/ StoreChunks(d)
    \/ IndexChunks(d)
    \/ StoreImages(d)
    \/ StoreTables(d)
    \/ CompleteDocument(d)
    \/ FailDocument(d)
    \/ TimeOutDocument(d)

\* one step of DocumentController.terminate_batch
terminate_batch ==
    \/ ListBatch
    \/ NextDocument
    \/ DeleteVectors
    \/ DeleteChunks
    \/ DeleteRecord
    \/ ReturnTermination

NextBatch == terminate_batch \/ \E d \in BatchDocumentIds : _safe_process_document(d)

SpecBatch == InitBatch /\ [][NextBatch]_vars

----------------------------------------------------------------------------
(* A chat turn as a state machine                                          *)

\* the documents of the library, the points indexed for some of them, and a
\* new chat
InitChat ==
    /\ chat_documents \in ChatCategories
    /\ \E indexed \in SUBSET ChatDocumentIds :
           chat_index = {[document_id |-> d, category_id |-> chat_documents[d]] : d \in indexed}
    /\ chat_messages = <<>>
    /\ turn = NoTurn
    /\ NoDocument
    /\ NoQuery
    /\ NoRetrieval
    /\ NoAnswer
    /\ NoProcessing
    /\ NoBatch
    /\ NoStream

\* send_message and send_message_stream up to the guard: the chat is created,
\* the filters are resolved and the user message is saved
StartTurn(op, category_ids, document_ids, is_relevant, llm_fails) ==
    /\ turn.pc = "idle"
    /\ turn' = [op |-> op, pc |-> "user_saved", category_ids |-> category_ids,
                document_ids |-> document_ids, is_relevant |-> is_relevant,
                llm_fails |-> llm_fails,
                filters |-> _resolve_search_filters(chat_documents, category_ids, document_ids),
                search_results |-> {}]
    /\ chat_messages' = Append(chat_messages, "user")
    /\ UNCHANGED <<chat_documents, chat_index>>
    /\ UNCHANGED <<chunk_vars, search_vars, retrieval_vars, citation_vars, processing_vars, batch_vars, stream_vars>>

\* if not is_relevant: the direct answer is generated and saved; an exception
\* of the LLM client leaves the handler
DirectAnswer ==
    /\ turn.pc = "user_saved" /\ ~turn.is_relevant
    /\ turn' = [turn EXCEPT !.pc = "ended"]
    /\ chat_messages' = IF turn.llm_fails THEN chat_messages
                        ELSE Append(chat_messages, "assistant")
    /\ UNCHANGED <<chat_documents, chat_index>>
    /\ UNCHANGED <<chunk_vars, search_vars, retrieval_vars, citation_vars, processing_vars, batch_vars, stream_vars>>

\* search_results = self.search_service.search(..., document_ids, category_ids)
SearchForTurn ==
    /\ turn.pc = "user_saved" /\ turn.is_relevant
    /\ turn' = [turn EXCEPT !.pc = "searched",
                            !.search_results = _build_filters(chat_index,
                                                   turn.filters.document_ids,
                                                   turn.filters.category_ids)]
    /\ UNCHANGED <<chat_documents, chat_index, chat_messages>>
    /\ UNCHANGED <<chunk_vars, search_vars, retrieval_vars, citation_vars, processing_vars, batch_vars, stream_vars>>

\* the answer is generated and saved: send_message answers with an apology
\* when the LLM fails, send_message_stream yields an error event and returns
AnswerTurn ==
    /\ turn.pc = "searched"
    /\ turn' = [turn EXCEPT !.pc = "ended"]
    /\ chat_messages' = IF turn.llm_fails /\ turn.op = "send_message_stream"
                        THEN chat_messages
                        ELSE Append(chat_messages, "assistant")
    /\ UNCHANGED <<chat_documents, chat_index>>
    /\ UNCHANGED <<chunk_vars, search_vars, retrieval_vars, citation_vars, processing_vars, batch_vars, stream_vars>>

NextChat ==
    \/ \E op \in {"send_message", "send_message_stream"},
          category_ids \in CategoryIdChoices, document_ids \in ChatDocumentIdChoices,
          is_relevant \in BOOLEAN, llm_fails \in BOOLEAN :
           StartTurn(op, category_ids, document_ids, is_relevant, llm_fails)
    \/ DirectAnswer
    \/ SearchForTurn
    \/ AnswerTurn

SpecChat == InitChat /\ [][NextChat]_vars

----------------------------------------------------------------------------
(* The status of a batch and its subscribers as a state machine            *)

\* ProcessingStatusManager() and init_batch(batch_id, files): the file of the
\* batch is pending, _events has no queue for the batch, nobody streams
InitStatusStream ==
    /\ _batches = [status |-> "pending"]
    /\ _events = [created |-> FALSE, items |-> <<>>]
    /\ applied = <<>>
    /\ streams = [s \in Subscribers |-> [pc |-> "idle", since |-> 0, received |-> <<>>]]
    /\ NoDocument
    /\ NoQuery
    /\ NoRetrieval
    /\ NoAnswer
    /\ NoProcessing
    /\ NoBatch
    /\ NoChat

\* await update_file_status(batch_id, filename, status): the change is applied
\* and, if batch_id in self._events, put on the queue of the batch; a change is
\* known by its number
UpdateFileStatus(status) ==
    /\ Len(applied) < MaxUpdates
    /\ _batches' = [status |-> status]
    /\ applied' = Append(applied, status)
    /\ _events' = IF _events.created
                  THEN [_events EXCEPT !.items = Append(@, Len(applied) + 1)]
                  ELSE _events
    /\ UNCHANGED streams
    /\ UNCHANGED <<chunk_vars, search_vars, retrieval_vars, citation_vars, processing_vars, batch_vars, chat_vars>>

\* stream_status up to its first yield: the initial_state event is sent
SendInitialState(s) ==
    /\ streams[s].pc = "idle"
    /\ streams' = [streams EXCEPT ![s].pc = "initial_sent", ![s].since = Len(applied)]
    /\ UNCHANGED <<_batches, _events, applied>>
    /\ UNCHANGED <<chunk_vars, search_vars, retrieval_vars, citation_vars, processing_vars, batch_vars, chat_vars>>

\* queue = self._events[batch_id], when the generator is resumed: the
\* defaultdict creates the queue of the batch unless it has one
OpenQueue(s) ==
    /\ streams[s].pc = "initial_sent"
    /\ streams' = [streams EXCEPT ![s].pc = "waiting"]
    /\ _events' = [_events EXCEPT !.created = TRUE]
    /\ UNCHANGED <<_batches, applied>>
    /\ UNCHANGED <<chunk_vars, search_vars, retrieval_vars, citation_vars, processing_vars, batch_vars, chat_vars>>

\* event = await asyncio.wait_for(queue.get(), timeout=15.0), and the event is
\* sent to the subscriber; a heartbeat changes nothing
GetEvent(s) ==
    /\ streams[s].pc = "waiting"
    /\ _events.items # <<>>
    /\ streams' = [streams EXCEPT ![s].received = Append(@, Head(_events.items))]
    /\ _events' = [_events EXCEPT !.items = Tail(@)]
    /\ UNCHANGED <<_batches, applied>>
    /\ UNCHANGED <<chunk_vars, search_vars, retrieval_vars, citation_vars, processing_vars, batch_vars, chat_vars>>

\* one step of stream_status for a subscriber
stream_status(s) == SendInitialState(s) \/ OpenQueue(s) \/ GetEvent(s)

NextStatusStream ==
    \/ \E status \in FileStatuses : UpdateFileStatus(status)
    \/ \E s \in Subscribers : stream_status(s)

SpecStatusStream == InitStatusStream /\ [][NextStatusStream]_vars

\* the event loop runs every generator that can go on: a subscriber that was
\* sent the initial state opens the queue, and a waiting one takes an event
\* that is on the queue
SpecStatusStreamFair ==
    /\ SpecStatusStream
    /\ \A s \in Subscribers : WF_vars(OpenQueue(s)) /\ WF_vars(GetEvent(s))

----------------------------------------------------------------------------
(* Properties of the chunker                                               *)

Chunked == phase = "chunked"

\* the chunks as _chunk_section and _split_large_section created them
CreatedChunks == Flatten(section_chunks)

\* C1: the chunk at position i (0-based) of the returned list has
\* chunk_index = i and chunk_id = "{document_id}_chunk_{i}": the ids are dense,
\* whatever was split, merged and filtered before.
C1_IdsDense ==
    Chunked =>
        \A i \in 1..Len(chunks) :
            /\ chunks[i].chunk_index = i - 1
            /\ chunks[i].chunk_id = ChunkId(document.document_id, i - 1)

\* a document whose provisional ids had a gap: chunks were merged or dropped
\* and at least two are returned
C1_Witness ==
    /\ Chunked
    /\ Len(chunks) >= 2
    /\ Len(chunks) < Len(CreatedChunks)
    /\ \E i \in 1..Len(chunks) : chunks[i].merged

\* C2 (as claimed): every returned chunk holds at least
\* settings.min_chunk_size characters, chunks tagged merged aside.
C2_AtLeastConfiguredMin ==
    Chunked =>
        \A i \in 1..Len(chunks) :
            \/ StrLen(chunks[i].content) >= chunker.settings.min_chunk_size
            \/ chunks[i].merged

\* C3 (as claimed): every returned chunk holds at most max_chunk_size
\* characters.
C3_AtMostMax ==
    Chunked =>
        \A i \in 1..Len(chunks) :
            StrLen(chunks[i].content) <= chunker.settings.max_chunk_size

\* a line with two or more pipe characters
HasPipes(line) == CountChar(line, "|") >= 2

\* a line that begins with a [TABLE:<id>] marker
IsMarkerLine(line) == MarkerMatch(Strip(line))[1]

OnPages(items, lo, hi) ==
    {x \in Range(items) : lo <= x.page_number /\ x.page_number <= hi}

\* C5 (as claimed): when _chunk_section produces chunks for a section, every
\* table on the section's pages has its id in the table_ids of one of those
\* chunks or in a [TABLE:<id>] marker of their contents.
C5_TablesRepresented ==
    Chunked =>
        \A k \in 1..Len(document.sections) :
            section_chunks[k] # <<>> =>
                \A tbl \in OnPages(document.tables, document.sections[k].page_start,
                                   document.sections[k].page_end) :
                    \E c \in Range(section_chunks[k]) :
                        \/ tbl.table_id \in c.table_ids
                        \/ Contains(c.content, Marker(tbl.table_id))

\* C6 (as claimed): every image id and table id of a created chunk belongs to
\* an image or table on the pages page_start..page_end of that chunk.
C6_IdsOnChunkPages ==
    Chunked =>
        \A c \in Range(CreatedChunks) :
            /\ \A id \in c.table_ids :
                  \E tbl \in OnPages(document.tables, c.page_start, c.page_end) :
                      tbl.table_id = id
            /\ \A id \in c.image_ids :
                  \E img \in OnPages(document.images, c.page_start, c.page_end) :
                      img.image_id = id

----------------------------------------------------------------------------
(* Properties of the unified search                                        *)

Searched == search_phase = "searched"

Answered == search_phase = "answered"

\* the weighted, sorted pool of the call that was made
Pool == AllResults(index, call)

\* the best top_k of the pool: what the threshold is applied to
TopCandidates == Slice(Pool, call.top_k)

\* the threshold removed every candidate of a pool that has results
ThresholdRemovedAll ==
    /\ Pool # <<>>
    /\ \A i \in 1..Len(TopCandidates) :
          ~(search_settings.similarity_threshold > 0
                => TopCandidates[i].score >= search_settings.similarity_threshold)

Contents(results) == {results[i].content : i \in 1..Len(results)}

\* the weighted score a content had before any reranking
PoolScore(content) ==
    LET i == CHOOSE i \in 1..Len(Pool) : Pool[i].content = content IN Pool[i].score

SurvivorsReturned ==
    \A i \in 1..Len(TopCandidates) :
        TopCandidates[i].score >= search_settings.similarity_threshold =>
            \/ TopCandidates[i].content \in Contents(search_results)
            \/ Len(search_results) = search_settings.rerank_top_k

\* C8 as stated: without the fallback every returned result has a weighted
\* score from before reranking of at least the similarity threshold, and no
\* candidate with such a score is removed because of its reranker score.
C8_AllAtLeastThreshold ==
    (Searched /\ ~ThresholdRemovedAll) =>
        /\ \A i \in 1..Len(search_results) :
              PoolScore(search_results[i].content)
                  >= search_settings.similarity_threshold
        /\ SurvivorsReturned

\* C8: with a similarity threshold above zero and without the fallback every
\* returned result has a weighted score from before reranking of at least the
\* threshold; with any threshold, no candidate with such a score is removed
\* because of its reranker score: only the final slice shortens the list.
C8_PositiveThresholdOnWeighted ==
    (Searched /\ ~ThresholdRemovedAll) =>
        /\ search_settings.similarity_threshold > 0 =>
              \A i \in 1..Len(search_results) :
                  PoolScore(search_results[i].content)
                      >= search_settings.similarity_threshold
        /\ SurvivorsReturned

\* the threshold removed a candidate, and a result whose reranker score is
\* below the threshold was returned all the same
C8_Witness ==
    /\ Searched /\ ~ThresholdRemovedAll
    /\ search_settings.similarity_threshold > 0
    /\ Len(search_results) < Len(TopCandidates)
    /\ Len(search_results) < search_settings.rerank_top_k
    /\ \E i \in 1..Len(search_results) :
          /\ search_results[i].similarity_score
                >= search_settings.similarity_threshold
          /\ search_results[i].score < search_settings.similarity_threshold

\* the reranker was asked to score the candidates of the call
RerankerRan == search_settings.use_reranker /\ Pool # <<>>

\* what RerankService.rerank answered for a content in the call
RerankerScore(content) ==
    IF ~rerank_service._initialized THEN NeutralScore
    ELSE IF call.predict_ok THEN cross_encoder[content]
    ELSE FailedScore

\* the results of a document
ResultsOf(document_id) ==
    {i \in 1..Len(search_results) : search_results[i].document_id = document_id}

\* C9: after a rerank every returned result has the reranker's score of its
\* content as score and its weighted score from before as similarity_score,
\* and the results are in non-increasing order of score; the sources of the
\* answer report for every document the largest weighted score from before
\* the rerank of its results, never a reranker score (stated for answers whose
\* results had no negative weighted score).
C9_RerankKeepsSimilarity ==
    /\ ((Searched \/ Answered) /\ RerankerRan) =>
          /\ \A i \in 1..Len(search_results) :
                /\ search_results[i].score
                      = RerankerScore(search_results[i].content)
                /\ search_results[i].similarity_score
                      = PoolScore(search_results[i].content)
          /\ \A i \in 1..Len(search_results) : \A j \in i..Len(search_results) :
                search_results[i].score >= search_results[j].score
    /\ (/\ Answered
        /\ \A i \in 1..Len(search_results) :
              PoolScore(search_results[i].content) >= 0) =>
          \A d \in DOMAIN sources :
              sources[d].score
                  = Max({PoolScore(search_results[i].content) : i \in ResultsOf(d)})

\* the number of results of a source type
CountOf(results, source_type) ==
    Cardinality({i \in 1..Len(results) : results[i].source_type = source_type})

\* the call with one weight replaced
WithWeight(c, source_type, w) ==
    CASE source_type = "text" -> [c EXCEPT !.alpha_text = w]
      [] source_type = "table" -> [c EXCEPT !.alpha_tables = w]
      [] OTHER -> [c EXCEPT !.alpha_images = w]

WeightOf(c, source_type) ==
    CASE source_type = "text" -> c.alpha_text
      [] source_type = "table" -> c.alpha_tables
      [] OTHER -> c.alpha_images

\* the results of the same call over the same index with the same reranker
\* answers and one weight replaced
ResultsWithWeight(source_type, w) ==
    search(search_settings, index, cross_encoder, rerank_service,
           WithWeight(call, source_type, w)).results

FallbackWithWeight(source_type, w) ==
    FallbackTaken(search_settings,
                  AllResults(index, WithWeight(call, source_type, w)), call.top_k)

SourceTypes == {"text", "table", "image"}

\* C10 as stated: all else equal, a larger weight for a source type never
\* gives that type fewer results.
C10_WeightMonotone ==
    Searched =>
        \A t \in SourceTypes : \A w \in WeightValues :
            w > WeightOf(call, t) =>
                CountOf(ResultsWithWeight(t, w), t) >= CountOf(search_results, t)

\* C10: all else equal, a larger weight for a source type never gives that
\* type fewer results, unless the call with the smaller weight took the
\* threshold fallback and the call with the larger weight does not.
C10_WeightMonotoneSameFallback ==
    Searched =>
        \A t \in SourceTypes : \A w \in WeightValues :
            (/\ w > WeightOf(call, t)
             /\ ~(ThresholdRemovedAll /\ ~FallbackWithWeight(t, w))) =>
                CountOf(ResultsWithWeight(t, w), t) >= CountOf(search_results, t)

\* a larger weight brings a type more results, outside the fallback and with
\* the reranker scoring
C10_Witness ==
    /\ Searched /\ ~ThresholdRemovedAll /\ RerankerRan
    /\ \E t \in SourceTypes : \E w \in WeightValues :
          /\ w > WeightOf(call, t)
          /\ CountOf(ResultsWithWeight(t, w), t) > CountOf(search_results, t)

----------------------------------------------------------------------------
(* A collection whose query raises                                         *)

\* the index as it would be if the collections in failing held nothing
WithoutFailing(idx, failing) ==
    [text  |-> IF "text" \in failing THEN <<>> ELSE idx.text,
     table |-> IF "table" \in failing THEN <<>> ELSE idx.table,
     image |-> IF "image" \in failing THEN <<>> ELSE idx.image]

\* the source types of the collections the call searches
Enabled(c) ==
    (IF c.search_text THEN {"text"} ELSE {})
        \cup (IF c.search_tables THEN {"table"} ELSE {})
        \cup (IF c.search_images THEN {"image"} ELSE {})

\* a search in which an enabled collection's query raises has returned
SearchedWithFailure ==
    Searched /\ (call.failing \cap Enabled(call)) # {}

----------------------------------------------------------------------------
(* The reranker's scores                                                   *)

\* doc_texts: the contents handed to the reranker by the search
RerankInput ==
    LET candidates == Candidates(search_settings, Pool, call.top_k) IN
    [i \in 1..Len(candidates) |-> candidates[i].content]

\* rerank_scores: what RerankService.rerank returned to the search
RerankOutput == rerank(rerank_service, cross_encoder, RerankInput, call.predict_ok)

\* the cross-encoder did not load, or it raised when it was called
RerankFailed ==
    \/ ~rerank_service._initialized
    \/ rerank_service.model = "None"
    \/ ~call.predict_ok

\* C12 as stated: rerank returns one score per document, in input order (the
\* model's score of each document when the model answers), and the neutral
\* score 1.0 for every document when the model did not load or raises when
\* it is called.
C12_NeutralOnEveryFailure ==
    (Searched /\ RerankerRan) =>
        /\ Len(RerankOutput) = Len(RerankInput)
        /\ \A i \in 1..Len(RerankInput) :
              RerankOutput[i] = IF RerankFailed THEN NeutralScore
                                ELSE cross_encoder[RerankInput[i]]

----------------------------------------------------------------------------
(* Properties of retrieval                                                 *)

Retrieved == retrieval_phase = "retrieved"

Enriched == Retrieved /\ retrieval_call.op = "enrich_search_results"

\* the document a repository call is about
FetchDocument(f) ==
    IF f.op = "get_image_by_id" THEN DocId(f.key[1]) ELSE f.key

\* the repository calls of one kind made for a document
FetchesFor(document_id, ops) ==
    {i \in 1..Len(fetches) :
        fetches[i].op \in ops /\ FetchDocument(fetches[i]) = document_id}

FetchedDocuments == {FetchDocument(fetches[i]) : i \in 1..Len(fetches)}

\* C13 as stated: enrich_search_results fetches the tables of each distinct
\* document at most once and the images of each distinct document at most
\* once, however many table or image ids belong to the document.
C13_OneFetchPerDocument ==
    Enriched =>
        \A d \in FetchedDocuments :
            /\ Cardinality(FetchesFor(d, {"get_tables_by_document"})) <= 1
            /\ Cardinality(FetchesFor(d, {"get_images_by_document",
                                          "get_image_by_id"})) <= 1

\* C14 as stated: every image returned by retrieve_images with
\* verify_files=True, and so by enrich_search_results, has a backing file on
\* disk, also when a store fetch fails part-way through the id list.
C14_ReturnedImagesHaveFiles ==
    (Retrieved /\ retrieval_call.verify_files) =>
        \A i \in 1..Len(retrieved.images) : FileExists(files, retrieved.images[i])

----------------------------------------------------------------------------
(* Properties of citation enrichment                                       *)

Cited == citation_phase \in {"chat", "query"}

\* chunk_doc_map of the call
SourceMapping == chunk_doc_map(context.context_chunks, context.sources_map)

\* the piece is a [Source N, ...] placeholder whose ordinal is in the mapping
InMapping(piece) == piece.source # 0 /\ piece.source \in DOMAIN SourceMapping

\* [<filename of source N>, Page X-Y] for a placeholder
Rewritten(piece) ==
    FileCitation(SourceMapping[piece.source].filename, piece.page_range)

\* the citation record of a placeholder with the pages its range names
RecordOf(piece) ==
    Citation(piece.source, SourceMapping[piece.source].document_id,
             SourceMapping[piece.source].filename,
             SourceMapping[piece.source].section_title, piece.pages)

\* the answer holds only text and [Source N, Page X-Y] placeholders
OnlyRangePlaceholders ==
    \A k \in 1..Len(answer_pieces) : answer_pieces[k].kind \in {"range", "text"}

\* C15 as stated: every placeholder [Source N, Page X-Y] with N in the
\* mapping is replaced by [<filename of source N>, Page X-Y], and exactly one
\* citation record is appended for it, with source_number N, the document
\* id, filename and section title of source N and pages [X, Y].
C15_PlaceholderRewrittenAndRecorded ==
    (Cited /\ OnlyRangePlaceholders) =>
        /\ enriched = Flatten([k \in 1..Len(answer_pieces) |->
                          IF InMapping(answer_pieces[k])
                          THEN Rewritten(answer_pieces[k])
                          ELSE answer_pieces[k].text])
        /\ inline_citations
              = Flatten([k \in 1..Len(answer_pieces) |->
                    IF InMapping(answer_pieces[k])
                    THEN <<RecordOf(answer_pieces[k])>> ELSE <<>>])

RECURSIVE Rewritings(_)
\* the texts that differ from the answer only inside placeholders whose
\* ordinal is in the mapping, each of them kept or rewritten
Rewritings(pieces) ==
    IF pieces = <<>> THEN {<<>>}
    ELSE {a \o b : a \in (IF InMapping(Head(pieces))
                          THEN {Head(pieces).text, Rewritten(Head(pieces))}
                          ELSE {Head(pieces).text}),
                   b \in Rewritings(Tail(pieces))}

\* C16 as stated: only placeholders whose ordinal is in the mapping change;
\* a placeholder with an ordinal outside the mapping is kept and yields no
\* record, and all text outside the placeholders, also between two
\* citations, is unchanged.
C16_OnlyMappedPlaceholdersChange ==
    Cited =>
        /\ enriched \in Rewritings(answer_pieces)
        /\ \A i \in 1..Len(inline_citations) :
              inline_citations[i].source_number # 0 =>
                  \E k \in 1..Len(answer_pieces) :
                      /\ InMapping(answer_pieces[k])
                      /\ answer_pieces[k].source = inline_citations[i].source_number

\* the answer cites by [Source N, ...] only
NoFileCitation ==
    \A k \in 1..Len(answer_pieces) : answer_pieces[k].kind # "file"

\* the pages C17 gives a placeholder: the numbers of its range, and the
\* pages of the cited chunk when the range has no number
PagesOf(piece) ==
    IF piece.pages # <<>> THEN piece.pages
    ELSE <<SourceMapping[piece.source].page_start,
           SourceMapping[piece.source].page_end>>

\* C17 as stated: in both controllers the pages of a record are the numeric
\* tokens of the placeholder's page range split on hyphen or en-dash, and
\* the pages of the cited chunk only when the range has no numeric token.
C17_PagesSplitOnHyphenOrEnDash ==
    (Cited /\ NoFileCitation) =>
        \A i \in 1..Len(inline_citations) :
            \E k \in 1..Len(answer_pieces) :
                /\ InMapping(answer_pieces[k])
                /\ answer_pieces[k].source = inline_citations[i].source_number
                /\ inline_citations[i].pages = PagesOf(answer_pieces[k])

----------------------------------------------------------------------------
(* A document whose middle section has no text                             *)

\* the cleaned content of the k-th section of the document
CleanedSection(k) ==
    CleanedContent(document.sections[k],
                   SelectSeq(document.tables, LAMBDA tbl :
                       /\ document.sections[k].page_start <= tbl.page_number
                       /\ tbl.page_number <= document.sections[k].page_end),
                   _detect_repeated_headers(document.sections))

\* the cleaned content fits one chunk and is not skipped
FitsOneChunk(content) ==
    /\ StrLen(Strip(content)) >= chunker._min_chunk_size
    /\ StrLen(content) <= chunker.settings.max_chunk_size

\* three sections, the first and the last of a size between the minimum and
\* max_chunk_size, the middle one of fewer than 100 characters
MiddleSectionEmpty ==
    /\ Len(document.sections) = 3
    /\ FitsOneChunk(CleanedSection(1))
    /\ StrLen(Strip(CleanedSection(2))) < InternalMinChunkSize
    /\ FitsOneChunk(CleanedSection(3))

\* the chunks of the first and the last section fall to the merge pass: one
\* of them is below the merge threshold and together they stay within 1.2
\* times max_chunk_size
OuterSectionsMerge ==
    /\ \/ StrLen(CleanedSection(1)) < chunker._merge_threshold
       \/ StrLen(CleanedSection(3)) < chunker._merge_threshold
    /\ 10 * (StrLen(CleanedSection(1)) + StrLen(CleanedSection(3)))
          <= 12 * chunker.settings.max_chunk_size

\* C18 as stated: a three-section document whose middle section has fewer
\* than 100 characters yields exactly 2 chunks, one from section 1 and one
\* from section 3, whatever the sizes of sections 1 and 3.
C18_ExactlyTwoChunks ==
    (Chunked /\ MiddleSectionEmpty) =>
        /\ Len(chunks) = 2
        /\ chunks[1].section_title = document.sections[1].title
        /\ chunks[2].section_title = document.sections[3].title

\* C18: the middle section yields no chunk; the document yields exactly 2
\* chunks, one from section 1 and one from section 3, unless the merge pass
\* combines them, and then exactly 1 chunk tagged merged that holds the
\* content of both.
C18_TwoChunksUnlessMerged ==
    (Chunked /\ MiddleSectionEmpty) =>
        /\ section_chunks[2] = <<>>
        /\ IF OuterSectionsMerge
           THEN /\ Len(chunks) = 1
                /\ chunks[1].merged
                /\ chunks[1].content
                      = Cat(Cat(CleanedSection(1), NLNL), CleanedSection(3))
           ELSE /\ Len(chunks) = 2
                /\ chunks[1].section_title = document.sections[1].title
                /\ chunks[1].content = CleanedSection(1)
                /\ chunks[2].section_title = document.sections[3].title
                /\ chunks[2].content = CleanedSection(3)
                /\ ~chunks[1].merged /\ ~chunks[2].merged

\* a middle section with some text was skipped and the two outer sections
\* gave one chunk each, the first of them below the merge threshold
C18_Witness ==
    /\ Chunked /\ MiddleSectionEmpty /\ ~OuterSectionsMerge
    /\ document.sections[2].content # <<>>
    /\ StrLen(CleanedSection(3)) < chunker._merge_threshold
    /\ Len(chunks) = 2

----------------------------------------------------------------------------
(* A document without chunks                                               *)

\* process_document has returned or raised
Processed == process_phase = "processed"

\* process_document ran chunk_sections, whose result is in chunks, and got no
\* chunk
NoChunks == Processed /\ phase = "chunked" /\ chunks = <<>>

\* C19: chunk_sections called with no sections returns an empty list, and
\* process_document for a document whose chunking yields zero chunks ends
\* with the document status FAILED and never sets it to COMPLETED.
C19_NoChunksIsAFailure ==
    /\ document.sections = <<>> => chunk_sections(chunker, document) = <<>>
    /\ NoChunks =>
          /\ document_repo.status = "failed"
          /\ \A i \in 1..Len(document_repo.statuses) :
                document_repo.statuses[i] # "completed"
          /\ document_repo.statuses = <<"processing", "failed">>
          /\ process_call.raised
          /\ indexer.chunks = <<>>

\* a document without sections was processed with no call failing and
\* ended FAILED
C19_Witness ==
    /\ NoChunks
    /\ document.sections = <<>>
    /\ process_call.fail_at = "none"
    /\ process_call.batch_id = "b1"
    /\ document_repo.status = "failed"
    /\ status_manager[Len(status_manager)] = "failed"

----------------------------------------------------------------------------
(* The overlaps of the returned chunks                                     *)

\* int(len(chunk.content) * self.overlap_percentage) of a returned chunk
OverlapChars(c) == (StrLen(c.content) * chunker.overlap_percentage) \div 100

\* the chunks before the tiny-chunk filter, with their overlaps
Overlapped == _apply_overlap(chunker, _merge_small_chunks(chunker, Flatten(section_chunks)))

\* the tiny-chunk filter dropped a chunk
FilterDropped == Len(chunks) < Len(Overlapped)

\* C20: in the returned list, the first chunk has no overlap_start, the last
\* chunk has no overlap_end, the overlap_start of every other chunk is the
\* stripped, image-stripped tail of the content of the chunk before it in
\* that list, the overlap_end of every other chunk is the tail of its own
\* content, and both are at most int(overlap_percentage * len(content)) long.
C20_OverlapsOfReturnedList ==
    Chunked =>
        \A i \in 1..Len(chunks) :
            /\ IF i = 1 THEN ~chunks[i].overlap_start.some
               ELSE /\ chunks[i].overlap_start
                          = Some(OverlapText(chunks[i - 1].content, OverlapChars(chunks[i])))
                    /\ StrLen(chunks[i].overlap_start.text) <= OverlapChars(chunks[i])
            /\ IF i = Len(chunks) THEN ~chunks[i].overlap_end.some
               ELSE /\ chunks[i].overlap_end
                          = Some(OverlapText(chunks[i].content, OverlapChars(chunks[i])))
                    /\ StrLen(chunks[i].overlap_end.text) <= OverlapChars(chunks[i])

----------------------------------------------------------------------------
(* Lines flagged as repeated headers                                       *)

\* the stripped lines in the first five and the last five lines of a section
ZoneLines(section) ==
    LET lines == Split(section.content, NL) IN
    {Strip(lines[i]) : i \in {j \in 1..Len(lines) : j <= 5 \/ j > Len(lines) - 5}}

\* the sections of the document with the line in their header or footer zone
SectionsWith(l) ==
    {i \in 1..Len(document.sections) : l \in ZoneLines(document.sections[i])}

\* max(2, ceil(0.2 * section_count))
CeilThreshold(section_count) == Max({2, (2 * section_count + 9) \div 10})

\* the lines the chunker removed as boilerplate although no pattern matches them
FlaggedByFrequency ==
    {l \in _detect_repeated_headers(document.sections) : ~MatchesPattern(l)}

\* C21: a line that matches none of the boilerplate patterns is flagged only
\* if the document has at least 2 sections and the line occurs in the
\* header/footer zone of at least max(2, ceil(0.2 * section_count)) distinct
\* sections; a line present in only one section is never flagged.
C21_FlaggedOnlyIfInEnoughSections ==
    Chunked =>
        \A l \in FlaggedByFrequency :
            /\ Len(document.sections) >= 2
            /\ Cardinality(SectionsWith(l)) >= CeilThreshold(Len(document.sections))

----------------------------------------------------------------------------
(* C22: the ids remove_tables_from_content returns                         *)

\* the tables of the pages of a section, as _chunk_section selects them
SectionTables(section) ==
    SelectSeq(document.tables, LAMBDA tbl :
        section.page_start <= tbl.page_number /\ tbl.page_number <= section.page_end)

\* the text _chunk_section hands to remove_tables_from_content
TableInput(section) ==
    _clean_content(strip_base64_images(section.content),
                   _detect_repeated_headers(document.sections))

\* the ids of the tables whose markdown is in the text
ReplacedIds(text, tables) ==
    {tables[k].table_id : k \in {j \in 1..Len(tables) :
        /\ tables[j].markdown_content # <<>>
        /\ Contains(text, tables[j].markdown_content)}}

\* C22: the id list remove_tables_from_content returns holds the id of every
\* table whose markdown it replaced and the id of every [TABLE:<id>] marker
\* that was in its input text, and these markers are still in its output.
C22_ReturnsReplacedAndMarkerIds ==
    Chunked =>
        \A i \in 1..Len(document.sections) :
            LET section == document.sections[i]
                text == TableInput(section)
                r == remove_tables_from_content(text, SectionTables(section))
            IN  /\ ReplacedIds(text, SectionTables(section)) \subseteq Range(r.table_ids)
                /\ _extract_table_ids_from_markers(text) \subseteq Range(r.table_ids)
                /\ _extract_table_ids_from_markers(text)
                       \subseteq _extract_table_ids_from_markers(r.content)

----------------------------------------------------------------------------
(* C23: the runs of table-like lines remove_markdown_tables_regex replaces *)

\* the text remove_tables_from_content hands to remove_markdown_tables_regex
RegexInput(section) ==
    ReplaceKnownTables(TableInput(section), <<>>, SectionTables(section)).cleaned_content

\* line i is table-like: it has two pipes or more, or it is a separator line
\* right after a table-like line
RECURSIVE TableLike(_, _)
TableLike(lines, i) ==
    /\ ~IsMarkerLine(lines[i])
    /\ \/ CountChar(lines[i], "|") >= 2
       \/ /\ i > 1
          /\ Contains(lines[i], Rep("-", 3)) \/ Contains(lines[i], Rep("=", 3))
          /\ TableLike(lines, i - 1)

RECURSIVE RunEnd(_, _)
\* the last line of the run of table-like lines that line i starts
RunEnd(lines, i) ==
    IF i < Len(lines) /\ TableLike(lines, i + 1) THEN RunEnd(lines, i + 1) ELSE i

RECURSIVE RunsCollapsed(_, _)
\* the lines from line i on, every run of two table-like lines or more
\* replaced by one [TABLE_REMOVED] line
RunsCollapsed(lines, i) ==
    IF i > Len(lines) THEN <<>>
    ELSE IF ~TableLike(lines, i) THEN <<lines[i]>> \o RunsCollapsed(lines, i + 1)
    ELSE IF RunEnd(lines, i) = i THEN <<lines[i]>> \o RunsCollapsed(lines, i + 1)
    ELSE <<TableRemoved>> \o RunsCollapsed(lines, RunEnd(lines, i) + 1)

\* C23: remove_markdown_tables_regex replaces every maximal run of two or more
\* consecutive table-like lines by exactly one [TABLE_REMOVED] line and outputs
\* every other line unchanged and in its place, also a lone table-like line at
\* the end of the text and the lines around a [TABLE:<id>] marker line.
C23_RunsCollapsedOthersKept ==
    Chunked =>
        \A i \in 1..Len(document.sections) :
            LET text == RegexInput(document.sections[i]) IN
            remove_markdown_tables_regex(text).text
                = Join(RunsCollapsed(Split(text, NL), 1), NL)

----------------------------------------------------------------------------
(* C24: the length of a merged chunk                                       *)

\* the chunks as _merge_small_chunks returned them
MergePassOutput == _merge_small_chunks(chunker, CreatedChunks)

\* C24: every chunk that _merge_small_chunks outputs with the 'merged' tag has
\* a content of at most 1.2 * max_chunk_size characters, also after a second
\* merge into the same chunk.
C24_MergedWithinBound ==
    Chunked =>
        \A i \in 1..Len(MergePassOutput) :
            MergePassOutput[i].merged =>
                StrLen(MergePassOutput[i].content) * 10
                    <= chunker.settings.max_chunk_size * 12

----------------------------------------------------------------------------
(* Termination of a batch                                                  *)

\* terminate_batch has returned and every task of the batch has ended
BatchSettled ==
    /\ termination.pc = "returned"
    /\ \A d \in BatchDocumentIds : batch_tasks[d] = "ended"

\* something is still stored for document d
StoredFor(d) ==
    \/ d \in batch_stores.chunks
    \/ d \in batch_stores.vectors
    \/ d \in batch_stores.images
    \/ d \in batch_stores.tables

\* C25: once terminate_batch has returned and every processing task of the
\* batch has ended, the documents of the batch that still exist are COMPLETED,
\* and no chunk record, vector, image or table is stored for a document that
\* was deleted, however the termination and the tasks were interleaved.
C25_NothingLeftOfDeleted ==
    BatchSettled =>
        \A d \in BatchDocumentIds :
            /\ batch_documents[d] \in {"none", "completed"}
            /\ batch_documents[d] = "none" => ~StoredFor(d)

----------------------------------------------------------------------------
(* The status a processing run leaves behind                               *)

\* C28: when the run of process_document that _safe_process_document started
\* for a document has ended, in whatever way, a document that exists is
\* COMPLETED or FAILED, never PENDING or PROCESSING.
C28_EndsCompletedOrFailed ==
    \A d \in BatchDocumentIds :
        batch_tasks[d] = "ended" /\ batch_documents[d] # "none"
            => batch_documents[d] \in {"completed", "failed"}

----------------------------------------------------------------------------
(* The filter of a chat turn and the messages it saves                     *)

\* the turn has searched
TurnSearched == turn.pc = "searched" \/ (turn.pc = "ended" /\ turn.is_relevant)

\* C26: for a message sent with category ids and no document ids, every search
\* result comes from a document of one of these categories, also when the
\* categories have no documents.
C26_ResultsWithinCategories ==
    TurnSearched /\ turn.category_ids # <<>> /\ turn.document_ids = <<>> =>
        \A r \in turn.search_results :
            chat_documents[r.document_id] \in Range(turn.category_ids)

\* C29: when a turn has ended, in whatever way, the user message it saved is
\* followed by an assistant message.
C29_AssistantMessageSaved ==
    turn.pc = "ended" => chat_messages = <<"user", "assistant">>

----------------------------------------------------------------------------
(* The status changes a subscriber is sent                                 *)

\* change n was applied after subscriber s was sent the initial state
AppliedAfterInitialState(s, n) ==
    /\ streams[s].pc # "idle"
    /\ streams[s].since < n
    /\ n <= Len(applied)

\* subscriber s was sent change n
Delivered(s, n) == \E i \in 1..Len(streams[s].received) : streams[s].received[i] = n

\* C27: every status change applied after a subscriber was sent the initial
\* state is eventually sent to this subscriber, to each one when several
\* stream the batch, also a change made before the subscriber first waits on
\* the queue.
C27_EveryChangeDelivered ==
    \A s \in Subscribers : \A n \in 1..MaxUpdates :
        AppliedAfterInitialState(s, n) ~> Delivered(s, n)

----------------------------------------------------------------------------
(* The pieces of a split text                                              *)

\* the text _chunk_section hands to _split_large_section: the cleaned content
\* of a section that is longer than max_chunk_size, <<>> for any other section
SplitInput(section) ==
    LET content == CleanedContent(section, SectionTables(section),
                                  _detect_repeated_headers(document.sections))
    IN  IF StrLen(content) > chunker.settings.max_chunk_size THEN content ELSE <<>>

\* the pieces _split_large_section gets for it
SplitPieces(text) ==
    _recursive_split(text, chunker.settings.max_chunk_size,
                     (chunker.settings.max_chunk_size * chunker.overlap_percentage) \div 100)

RECURSIVE SeparatorsOnly(_)
\* g is made of occurrences of the separators
SeparatorsOnly(g) ==
    \/ g = <<>>
    \/ \E i \in 1..(Len(Separators) - 1) :
           /\ HasPrefix(g, Separators[i])
           /\ SeparatorsOnly(Drop(g, StrLen(Separators[i])))

RECURSIVE BlankOrSeparators(_)
\* g is made of whitespace and of occurrences of the separators
BlankOrSeparators(g) ==
    \/ g = <<>>
    \/ IsSpace(g[1][1]) /\ BlankOrSeparators(Drop(g, 1))
    \/ HasPrefix(g, Separators[3]) /\ BlankOrSeparators(Drop(g, 2))

RECURSIVE LeadLen(_)
\* the length of the longest prefix of t that a gap between pieces can be
LeadLen(t) ==
    IF t = <<>> \/ ~(IsSpace(t[1][1]) \/ t[1][1] = ".") THEN 0
    ELSE t[1][2] + LeadLen(Tail(t))

RECURSIVE Embedded(_, _, _)
\* text is the pieces in order with a gap before, between and after them; a
\* gap is made of separators, or, if not strict, of whitespace and separators
Embedded(text, pieces, strict) ==
    IF pieces = <<>>
    THEN IF strict THEN SeparatorsOnly(text) ELSE BlankOrSeparators(text)
    ELSE \E k \in 0..LeadLen(text) :
             /\ IF strict THEN SeparatorsOnly(Take(text, k))
                ELSE BlankOrSeparators(Take(text, k))
             /\ HasPrefix(Drop(text, k), pieces[1])
             /\ Embedded(Drop(text, k + StrLen(pieces[1])), Tail(pieces), strict)

\* C30 (as claimed): the pieces of _split_text, in order, hold every character
\* of the text that is not in a separator occurrence at a piece boundary, each
\* once and in order, and there is a piece unless the text is blank.
C30_OnlySeparatorsLeftOut ==
    Chunked =>
        \A i \in 1..Len(document.sections) :
            LET text == SplitInput(document.sections[i]) IN
            text # <<>> =>
                /\ Embedded(text, SplitPieces(text), TRUE)
                /\ SplitPieces(text) # <<>>

\* C30 (amended): the pieces of _split_text, in order, hold every character of
\* the text but whitespace and separator occurrences between them, each once
\* and in order: a piece of whitespace only is dropped with its characters.
C30_OnlyBlanksAndSeparatorsLeftOut ==
    Chunked =>
        \A i \in 1..Len(document.sections) :
            LET text == SplitInput(document.sections[i]) IN
            text # <<>> => Embedded(text, SplitPieces(text), FALSE)

\* a text was split into two pieces or more, the separators between the
\* splits of a piece kept, and a text lost a tab between two pieces
C30_Witness ==
    /\ Chunked
    /\ \E i \in 1..Len(document.sections) :
           LET text == SplitInput(document.sections[i]) IN
           /\ text # <<>>
           /\ Len(SplitPieces(text)) >= 2
           /\ \E j \in 1..Len(SplitPieces(text)) : Contains(SplitPieces(text)[j], Rep(" ", 1))
    /\ \E i \in 1..Len(document.sections) :
           LET text == SplitInput(document.sections[i]) IN
           /\ Contains(text, Rep("\t", 1))
           /\ \A j \in 1..Len(SplitPieces(text)) : ~Contains(SplitPieces(text)[j], Rep("\t", 1))

====
